---- MODULE Spec2Model ----
(***************************************************************************)
(* A model of switchmap_py: the port-activity store                        *)
(* (storage/idlesince_store.py), the forwarding-database join and the      *)
(* switch assembler (snmp/collectors.py), and the commands build-html and  *)
(* scan-switch (cli.py).                                                   *)
(*                                                                         *)
(* Python strings that the code splits, parses or compares are sequences   *)
(* of one-character strings; a dotted OID is the sequence of its           *)
(* components (what oid.split(".") returns).                               *)
(***************************************************************************)
EXTENDS Integers, Sequences, FiniteSets, TLC

VARIABLES
    stored,   \* idle store: port name -> PortIdleState, or NoState for a missing key
    call,     \* the last update_port call: previous record, port, flag, observation time
    ret,      \* record the last update_port call returned
    prev,     \* port, flag and observation time of the update_port call before the last
    session,  \* SNMP session: table OID -> what get_table does for it (rows or an error)
    fdb,      \* outcome of the last _collect_macs call, with the queries it issued
    cfg,      \* SwitchConfig of the switch being collected
    sw,       \* outcome of the last collect_switch_state / collect_port_snapshots call
    build,    \* the build-html command: its lists, its log and where it stands
    files,    \* idle-since directory: switch name -> content of <name>.json
    scan,     \* the scan-switch command: options, position in the loop, what it scanned
    pure,     \* the last call of a helper of the collector: its arguments and its result
    par       \* the per-port updates of one switch, taken one port at a time

idleVars == <<stored, call, ret, prev>>

fdbVars == <<session, fdb>>

swVars == <<cfg, sw>>

cliVars == <<build, files, scan>>

auxVars == <<pure, par>>

vars == <<stored, call, ret, prev, session, fdb, cfg, sw, build, files, scan, pure, par>>

----------------------------------------------------------------------------
(* Port activity records: storage/idlesince_store.py *)

\* Largest timestamp of the model; timestamps are 1..MaxTime.
MaxTime == 3

\* Python None in a "datetime | None" field or argument.
None == 0

Times == 1..MaxTime

OptTime == {None} \cup Times

PortNames == {"Gi1/0/1", "Gi1/0/2"}

\* The dataclass PortIdleState: every record a loaded file can contain.
PortIdleState == [port : PortNames, idle_since : OptTime, last_active : OptTime]

\* Python None where a PortIdleState is expected (dict.get of a missing key).
NoState == [port |-> "", idle_since |-> None, last_active |-> None]

OptState == PortIdleState \cup {NoState}

\* update_port with the sticky branch dropped: the idle clock restarts.
update_port_restart(state, port, is_active, observed_at, now) ==
    LET at == IF observed_at # None THEN observed_at ELSE now
    IN  IF is_active
        THEN [port |-> port, idle_since |-> None, last_active |-> at]
        ELSE [port |-> port, idle_since |-> at, last_active |-> None]

\* update_port with the active branch keeping the previous idle_since.
update_port_keepidle(state, port, is_active, observed_at, now) ==
    LET at == IF observed_at # None THEN observed_at ELSE now
    IN  IF is_active
        THEN [port |-> port,
              idle_since |-> IF state # NoState THEN state.idle_since ELSE None,
              last_active |-> at]
        ELSE IF state # NoState /\ state.idle_since # None
        THEN [port |-> port, idle_since |-> state.idle_since,
              last_active |-> state.last_active]
        ELSE [port |-> port, idle_since |-> at, last_active |-> None]

\* update_port with the first-idle branch carrying last_active over.
update_port_carry(state, port, is_active, observed_at, now) ==
    LET at == IF observed_at # None THEN observed_at ELSE now
    IN  IF is_active
        THEN [port |-> port, idle_since |-> None, last_active |-> at]
        ELSE IF state # NoState /\ state.idle_since # None
        THEN [port |-> port, idle_since |-> state.idle_since,
              last_active |-> state.last_active]
        ELSE [port |-> port, idle_since |-> at,
              last_active |-> IF state # NoState THEN state.last_active ELSE None]

\* IdleSinceStore.update_port; now is what datetime.now() returns.
update_port(state, port, is_active, observed_at, now) ==
    LET at == IF observed_at # None THEN observed_at ELSE now
    IN  IF is_active
        THEN [port |-> port, idle_since |-> None, last_active |-> at]
        ELSE IF state # NoState /\ state.idle_since # None
        THEN [port |-> port, idle_since |-> state.idle_since,
              last_active |-> state.last_active]
        ELSE [port |-> port, idle_since |-> at, last_active |-> None]

\* No SNMP session and no collection: the state of the collector while the
\* store is exercised on its own.
NoSession == <<>>

NoFdb == [done |-> FALSE, macs |-> <<>>, rows |-> {}, queries |-> <<>>, log |-> <<>>]

\* No switch configured and no switch collected.
NoConfig == [name |-> "", trunk_ports |-> {}]

NoSwitch == [done |-> FALSE, op |-> "", raised |-> FALSE, ports |-> <<>>, vlans |-> <<>>,
             snapshots |-> <<>>, queries |-> <<>>]

SwitchAtRest == cfg = NoConfig /\ sw = NoSwitch

\* The arguments of a build_site call that was not made.
NoArgs == [called |-> FALSE, switches |-> <<>>, failed_switches |-> <<>>]

\* No command of the CLI is running and no store directory is in use.
NoBuild == [status |-> "idle", site |-> <<>>, outcomes |-> <<>>, switches |-> <<>>,
            failed_switches |-> <<>>, logged |-> <<>>, error |-> "", passed |-> NoArgs]

NoFiles == <<>>

NoScan == [status |-> "idle", k |-> 0, switch |-> "", prune_missing |-> FALSE,
           before |-> <<>>, scanned |-> <<>>, clock |-> 0, obs |-> <<>>]

CliAtRest == build = NoBuild /\ files = NoFiles /\ scan = NoScan

\* No helper was called and no per-port update is under way.
NoPure == [op |-> ""]

NoPar == [status |-> "idle"]

AuxAtRest == pure = NoPure /\ par = NoPar

NoCall == [made |-> FALSE, state |-> NoState, port |-> "", is_active |-> FALSE,
           at |-> None]

\* What the model remembers of the call before the last one.
Summary(c) == [made |-> c.made, port |-> c.port, is_active |-> c.is_active, at |-> c.at]

\* The store before any update: per port, no record or any record a file holds.
InitIdle ==
    /\ stored \in [PortNames -> OptState]
    /\ \A p \in PortNames : stored[p] # NoState => stored[p].port = p
    /\ call = NoCall
    /\ ret = NoState
    /\ prev = Summary(NoCall)
    /\ AuxAtRest
    /\ session = NoSession
    /\ fdb = NoFdb
    /\ SwitchAtRest
    /\ CliAtRest

\* One update of one port's record, as the scan loop does for each snapshot;
\* call.at is the observation time: the argument if given, else the clock.
UpdatePort(p, is_active, observed_at, now) ==
    /\ call' = [made |-> TRUE, state |-> stored[p], port |-> p,
                is_active |-> is_active,
                at |-> IF observed_at = None THEN now ELSE observed_at]
    /\ prev' = Summary(call)
    /\ ret' = update_port(stored[p], p, is_active, observed_at, now)
    /\ stored' = [stored EXCEPT ![p] = ret']
    /\ UNCHANGED <<fdbVars, swVars, cliVars, auxVars>>

NextIdle ==
    \E p \in PortNames, is_active \in BOOLEAN, observed_at \in OptTime, now \in Times :
        UpdatePort(p, is_active, observed_at, now)

SpecIdle == InitIdle /\ [][NextIdle]_vars

Present(t) == t # None

\* C1: after any update_port call, whatever the previous record was, the
\* returned record has exactly one of idle_since and last_active present.
C1_ExactlyOnePresent ==
    call.made => (Present(ret.idle_since) # Present(ret.last_active))

\* C2: update_port with is_active = true returns idle_since absent and
\* last_active equal to the observation time, for every previous record.
C2_ActiveClearsIdle ==
    (call.made /\ call.is_active) =>
        (ret.idle_since = None /\ ret.last_active = call.at /\ ret.port = call.port)

C2_Witness ==
    /\ call.made /\ call.is_active
    /\ call.state # NoState /\ Present(call.state.idle_since)
    /\ call.state.idle_since # call.at
    /\ ret.idle_since = None /\ ret.last_active = call.at

\* The previous record has idle_since present (T0) and the inactive
\* observation comes later (T1 > T0).
IdleObservedLater ==
    /\ call.made /\ ~call.is_active
    /\ call.state # NoState /\ Present(call.state.idle_since)
    /\ call.at > call.state.idle_since

\* C3: for a previous record with idle_since = T0, whatever its other field,
\* an inactive observation at T1 > T0 returns idle_since = T0 and last_active
\* absent.
C3_StickyIdleClearsLastActive ==
    IdleObservedLater =>
        (ret.idle_since = call.state.idle_since /\ ret.last_active = None)

\* C4: an inactive observation at T of a port with no previous record, or with
\* a record that has no idle_since, returns idle_since = T and last_active
\* absent.
C4_FirstIdleRecordsTime ==
    (call.made /\ ~call.is_active
        /\ (call.state = NoState \/ call.state.idle_since = None)) =>
        (ret.idle_since = call.at /\ ret.last_active = None /\ ret.port = call.port)

C4_Witness ==
    /\ call.made /\ ~call.is_active
    /\ call.state # NoState /\ call.state.idle_since = None
    /\ Present(call.state.last_active)
    /\ ret.idle_since = call.at /\ ret.last_active = None

\* Two update_port calls in a row for one port with the same flag, the second
\* at a later time: the second observes the port in the state the first put it in.
SameStateAgain ==
    /\ prev.made /\ call.made
    /\ prev.port = call.port
    /\ prev.is_active = call.is_active
    /\ call.at > prev.at

\* C5 as stated: observing a port again in the state it is in (Active or Idle)
\* at a later time returns the record unchanged.
C5_SameStateIsNoOp ==
    SameStateAgain => ret = call.state

\* C5 amended: observing an idle port inactive again returns the record
\* unchanged; observing an active port active again keeps idle_since absent
\* and moves last_active to the later observation time.
C5_IdleNoOpActiveRefreshes ==
    SameStateAgain =>
        IF call.is_active
        THEN ret.idle_since = None /\ ret.last_active = call.at
        ELSE ret = call.state

C5_Witness ==
    /\ SameStateAgain /\ ~call.is_active
    /\ ret = call.state
    /\ ret.idle_since = prev.at
    /\ ret.idle_since # call.at

----------------------------------------------------------------------------
(* Text helpers: Python str operations on sequences of characters *)

Digit == <<"0", "1", "2", "3", "4", "5", "6", "7", "8", "9">>

HexDigit == <<"0", "1", "2", "3", "4", "5", "6", "7", "8", "9",
              "a", "b", "c", "d", "e", "f">>

IsDigitChar(c) == \E d \in 1..10 : Digit[d] = c

DigitVal(c) == (CHOOSE d \in 1..10 : Digit[d] = c) - 1

\* str.isdigit(): non-empty and every character a decimal digit.
isdigit(s) == Len(s) > 0 /\ \A i \in 1..Len(s) : IsDigitChar(s[i])

Front(s) == SubSeq(s, 1, Len(s) - 1)

Last(s) == s[Len(s)]

RECURSIVE DigitsValue(_)
DigitsValue(s) ==
    IF Len(s) = 0 THEN 0 ELSE 10 * DigitsValue(Front(s)) + DigitVal(Last(s))

\* int(text) succeeds: an optional sign followed by decimal digits.
IsIntLiteral(s) ==
    /\ Len(s) > 0
    /\ isdigit(IF s[1] \in {"-", "+"} THEN Tail(s) ELSE s)

\* int(text) for a text int() accepts.
int(s) ==
    IF s[1] = "-" THEN 0 - DigitsValue(Tail(s))
    ELSE IF s[1] = "+" THEN DigitsValue(Tail(s))
    ELSE DigitsValue(s)

\* str(n) for a natural number: how a table source renders a numeric component.
RECURSIVE Dec(_)
Dec(n) == IF n < 10 THEN <<Digit[n + 1]>> ELSE Dec(n \div 10) \o <<Digit[(n % 10) + 1]>>

\* The components of a dotted OID written from numbers.
Oid(nums) == [i \in 1..Len(nums) |-> Dec(nums[i])]

RECURSIVE Hex(_)
Hex(n) == IF n < 16 THEN <<HexDigit[n + 1]>> ELSE Hex(n \div 16) \o <<HexDigit[(n % 16) + 1]>>

\* format(n, "02x"): lowercase hex, sign first, zero-padded to two characters.
Format02x(n) ==
    IF n < 0 THEN <<"-">> \o Hex(0 - n)
    ELSE IF n < 16 THEN <<"0">> \o Hex(n)
    ELSE Hex(n)

\* sep.join(parts)
RECURSIVE Join(_, _)
Join(parts, sep) ==
    IF Len(parts) = 0 THEN <<>>
    ELSE IF Len(parts) = 1 THEN parts[1]
    ELSE parts[1] \o sep \o Join(Tail(parts), sep)

----------------------------------------------------------------------------
(* Table OIDs: snmp/mibs.py *)

DOT1D_TP_FDB_PORT == Oid(<<1, 3, 6, 1, 2, 1, 17, 4, 3, 1, 2>>)

DOT1D_TP_FDB_STATUS == Oid(<<1, 3, 6, 1, 2, 1, 17, 4, 3, 1, 3>>)

DOT1D_BASE_PORT_IFINDEX == Oid(<<1, 3, 6, 1, 2, 1, 17, 1, 4, 1, 2>>)

QBRIDGE_VLAN_FDB_PORT == Oid(<<1, 3, 6, 1, 2, 1, 17, 7, 1, 2, 2, 1, 2>>)

QBRIDGE_VLAN_FDB_STATUS == Oid(<<1, 3, 6, 1, 2, 1, 17, 7, 1, 2, 2, 1, 3>>)

FdbTables == {DOT1D_BASE_PORT_IFINDEX, QBRIDGE_VLAN_FDB_PORT, QBRIDGE_VLAN_FDB_STATUS,
              DOT1D_TP_FDB_PORT, DOT1D_TP_FDB_STATUS}

----------------------------------------------------------------------------
(* The forwarding-database join: snmp/collectors.py *)

\* A table as get_table returns it: a set of rows [oid, value], one per OID.
\* A response is the table, or ok = FALSE when get_table raises.
Failed == [ok |-> FALSE, rows |-> {}]

Table(rows) == [ok |-> TRUE, rows |-> rows]

\* SnmpSession.get_table as the collector sees it.
get_table(sess, oid) == sess[oid]

HasKey(rows, oid) == \E r \in rows : r.oid = oid

\* dict[oid] for a key the table has.
Lookup(rows, oid) == (CHOOSE r \in rows : r.oid = oid).value

\* What dict.get returns for a missing key, as a status text.
NoStatus == <<>>

\* table.get(oid)
Get(rows, oid) == IF HasKey(rows, oid) THEN Lookup(rows, oid) ELSE NoStatus

\* _format_mac raises ValueError: some part is not an int() literal.
FormatMacRaises(parts) == \E i \in 1..Len(parts) : ~IsIntLiteral(parts[i])

\* _format_mac with the format "x": no zero padding.
_format_mac_unpadded(parts) ==
    Join([i \in 1..Len(parts) |->
             IF int(parts[i]) < 0 THEN <<"-">> \o Hex(0 - int(parts[i]))
             ELSE Hex(int(parts[i]))], <<":">>)

\* _format_mac
_format_mac(parts) == Join([i \in 1..Len(parts) |-> Format02x(int(parts[i]))], <<":">>)

NoMatch == [matched |-> FALSE, mac |-> <<>>, vlan_id |-> <<>>]

\* _parse_mac_from_oid; vlan_id is <<>> for the legacy scheme.
_parse_mac_from_oid(oid, prefix, vlan_aware) ==
    IF Len(oid) < Len(prefix) \/ SubSeq(oid, 1, Len(prefix)) # prefix
    THEN NoMatch
    ELSE LET suffix == SubSeq(oid, Len(prefix) + 1, Len(oid))
             need == IF vlan_aware THEN 7 ELSE 6
             mac_parts == IF vlan_aware THEN SubSeq(suffix, 2, 7) ELSE SubSeq(suffix, 1, 6)
         IN  IF Len(suffix) < need THEN NoMatch
             ELSE IF FormatMacRaises(mac_parts) THEN NoMatch
             ELSE [matched |-> TRUE, mac |-> _format_mac(mac_parts),
                   vlan_id |-> IF vlan_aware THEN suffix[1] ELSE <<>>]

\* _is_invalid_fdb_status
_is_invalid_fdb_status(status) == status = <<"2">>

\* _bridge_port_map that records interface 0 for a value that is no number.
_bridge_port_map_lenient(sess) ==
    LET base_ports == get_table(sess, DOT1D_BASE_PORT_IFINDEX)
    IN  IF ~base_ports.ok THEN <<>>
        ELSE [bp \in {Last(r.oid) : r \in base_ports.rows} |->
                 LET v == (CHOOSE r \in base_ports.rows : Last(r.oid) = bp).value
                 IN  IF isdigit(v) THEN int(v) ELSE 0]

\* _bridge_port_map: bridge-port text -> interface index; <<>> is the empty dict.
\* The rows of the table have one index component each, so no two rows share
\* their last component.
_bridge_port_map(sess) ==
    LET base_ports == get_table(sess, DOT1D_BASE_PORT_IFINDEX)
        good == {r \in base_ports.rows : isdigit(r.value)}
    IN  IF ~base_ports.ok THEN <<>>
        ELSE [bp \in {Last(r.oid) : r \in good} |->
                 int((CHOOSE r \in good : Last(r.oid) = bp).value)]

\* _status_oid that keeps the port table's own prefix.
_status_oid_samebase(source_base, status_base, source_oid) ==
    source_base \o SubSeq(source_oid, Len(source_base) + 1, Len(source_oid))

\* _status_oid: the status-table OID with the index suffix of source_oid.
_status_oid(source_base, status_base, source_oid) ==
    status_base \o SubSeq(source_oid, Len(source_base) + 1, Len(source_oid))

\* The loop with an unmapped bridge port falling back to its own number as
\* the interface index.
JoinRows_unmapped(ports, status, port_base, status_base, vlan_aware, bp_map) ==
    {[oid |-> r.oid,
      ifindex |-> IF r.value \in DOMAIN bp_map THEN bp_map[r.value] ELSE DigitsValue(r.value),
      mac |-> _parse_mac_from_oid(r.oid, port_base, vlan_aware).mac] :
        r \in {q \in ports :
                 /\ ~_is_invalid_fdb_status(Get(status, _status_oid(port_base, status_base, q.oid)))
                 /\ _parse_mac_from_oid(q.oid, port_base, vlan_aware).matched}}

\* The loop over one scheme's forwarding-port rows: the rows that add a MAC,
\* each with the interface index and the MAC it adds.
JoinRows(ports, status, port_base, status_base, vlan_aware, bp_map) ==
    {[oid |-> r.oid,
      ifindex |-> bp_map[r.value],
      mac |-> _parse_mac_from_oid(r.oid, port_base, vlan_aware).mac] :
        r \in {q \in ports :
                 /\ ~_is_invalid_fdb_status(Get(status, _status_oid(port_base, status_base, q.oid)))
                 /\ _parse_mac_from_oid(q.oid, port_base, vlan_aware).matched
                 /\ q.value \in DOMAIN bp_map}}

\* macs_by_ifindex after the loop: setdefault(ifindex, set()).add(mac) per row.
MacsByIfindex(added) ==
    [i \in {a.ifindex : a \in added} |-> {a.mac : a \in {b \in added : b.ifindex = i}}]

\* The log records _bridge_port_map and _collect_macs emit: their except
\* handlers substitute the empty result and call no logger.
EmittedLog == <<>>

Collected(added, queries) ==
    [done |-> TRUE, macs |-> MacsByIfindex(added), rows |-> {a.oid : a \in added},
     queries |-> queries, log |-> EmittedLog]

\* Lines 111-130: the VLAN-aware scheme, once its port table returned rows.
VlanScheme(sess, vlan_fdb_ports, bp_map) ==
    LET vlan_sq == get_table(sess, QBRIDGE_VLAN_FDB_STATUS)
        vlan_fdb_status == IF vlan_sq.ok THEN vlan_sq.rows ELSE {}
    IN  Collected(JoinRows(vlan_fdb_ports, vlan_fdb_status, QBRIDGE_VLAN_FDB_PORT,
                           QBRIDGE_VLAN_FDB_STATUS, TRUE, bp_map),
                  <<DOT1D_BASE_PORT_IFINDEX, QBRIDGE_VLAN_FDB_PORT,
                    QBRIDGE_VLAN_FDB_STATUS>>)

\* Lines 132-153: the legacy scheme.
LegacyScheme(sess, bp_map) ==
    LET fdb_q == get_table(sess, DOT1D_TP_FDB_PORT)
        fdb_sq == get_table(sess, DOT1D_TP_FDB_STATUS)
        fdb_status == IF fdb_sq.ok THEN fdb_sq.rows ELSE {}
    IN  IF ~fdb_q.ok
        THEN Collected({}, <<DOT1D_BASE_PORT_IFINDEX, QBRIDGE_VLAN_FDB_PORT,
                             DOT1D_TP_FDB_PORT>>)
        ELSE Collected(JoinRows(fdb_q.rows, fdb_status, DOT1D_TP_FDB_PORT,
                                DOT1D_TP_FDB_STATUS, FALSE, bp_map),
                       <<DOT1D_BASE_PORT_IFINDEX, QBRIDGE_VLAN_FDB_PORT,
                         DOT1D_TP_FDB_PORT, DOT1D_TP_FDB_STATUS>>)

\* What the try/except around the VLAN-aware port query leaves in vlan_fdb_ports.
VlanFdbPorts(sess) ==
    LET vlan_q == get_table(sess, QBRIDGE_VLAN_FDB_PORT)
    IN  IF vlan_q.ok THEN vlan_q.rows ELSE {}

\* _collect_macs that goes on to the legacy scheme when the VLAN-aware rows
\* added no MAC.
_collect_macs_fallthrough(sess) ==
    LET bridge_port_to_ifindex == _bridge_port_map(sess)
        vlan == VlanScheme(sess, VlanFdbPorts(sess), bridge_port_to_ifindex)
    IN  IF DOMAIN bridge_port_to_ifindex = {}
        THEN Collected({}, <<DOT1D_BASE_PORT_IFINDEX>>)
        ELSE IF VlanFdbPorts(sess) # {} /\ vlan.rows # {}
        THEN vlan
        ELSE LegacyScheme(sess, bridge_port_to_ifindex)

\* _collect_macs that gives up when the VLAN-aware port query raises.
_collect_macs_nofallback(sess) ==
    LET bridge_port_to_ifindex == _bridge_port_map(sess)
    IN  IF DOMAIN bridge_port_to_ifindex = {}
        THEN Collected({}, <<DOT1D_BASE_PORT_IFINDEX>>)
        ELSE IF ~get_table(sess, QBRIDGE_VLAN_FDB_PORT).ok
        THEN Collected({}, <<DOT1D_BASE_PORT_IFINDEX, QBRIDGE_VLAN_FDB_PORT>>)
        ELSE IF VlanFdbPorts(sess) # {}
        THEN VlanScheme(sess, VlanFdbPorts(sess), bridge_port_to_ifindex)
        ELSE LegacyScheme(sess, bridge_port_to_ifindex)

\* _collect_macs without the early return on an empty bridge-port map.
_collect_macs_noguard(sess) ==
    LET bridge_port_to_ifindex == _bridge_port_map(sess)
    IN  IF VlanFdbPorts(sess) # {}
        THEN VlanScheme(sess, VlanFdbPorts(sess), bridge_port_to_ifindex)
        ELSE LegacyScheme(sess, bridge_port_to_ifindex)

\* _collect_macs: the result, the rows that added a MAC and the queries issued, in order.
_collect_macs(sess) ==
    LET bridge_port_to_ifindex == _bridge_port_map(sess)
    IN  IF DOMAIN bridge_port_to_ifindex = {}
        THEN Collected({}, <<DOT1D_BASE_PORT_IFINDEX>>)
        ELSE IF VlanFdbPorts(sess) # {}
        THEN VlanScheme(sess, VlanFdbPorts(sess), bridge_port_to_ifindex)
        ELSE LegacyScheme(sess, bridge_port_to_ifindex)

----------------------------------------------------------------------------
(* The switches the collector is run against *)

\* Most rows a forwarding-port table of the model holds.
MaxRows == 2

\* Bridge-port table rows: port 1 -> ifIndex 10 or a non-numeric value,
\* port 2 -> ifIndex 11.
BridgeRowChoices ==
    {{}, {[oid |-> DOT1D_BASE_PORT_IFINDEX \o Oid(<<1>>), value |-> Dec(10)]},
         {[oid |-> DOT1D_BASE_PORT_IFINDEX \o Oid(<<1>>), value |-> <<"x">>]}}

BridgeRowChoices2 ==
    {{}, {[oid |-> DOT1D_BASE_PORT_IFINDEX \o Oid(<<2>>), value |-> Dec(11)]}}

BridgeResponses ==
    {Failed} \cup {Table(a \cup b) : a \in BridgeRowChoices, b \in BridgeRowChoices2}

\* Index suffixes of VLAN-aware rows: one MAC in VLAN 1 and in VLAN 2, and a
\* suffix one octet short.
VlanSuffixes ==
    {Oid(<<1, 0, 17, 34, 51, 68, 255>>),
     Oid(<<2, 0, 17, 34, 51, 68, 255>>),
     Oid(<<1, 0, 17, 34, 51, 68>>)}

\* Index suffixes of legacy rows: another MAC, and a suffix one octet short.
LegacySuffixes ==
    {Oid(<<0, 17, 34, 51, 68, 1>>),
     Oid(<<0, 17, 34, 51, 68>>)}

\* Bridge-port values of forwarding rows; port 3 is in no bridge-port table.
VlanPortValues == {Dec(1), Dec(3)}

LegacyPortValues == {Dec(2), Dec(3)}

\* Status values: absent from the status table, invalid (2), learned (3).
StatusValues == {NoStatus, Dec(2), Dec(3)}

\* A forwarding-port table and its status table over the chosen suffixes.
PortRows(base, assign) == {[oid |-> base \o s, value |-> assign[s].port] : s \in DOMAIN assign}

StatusRows(base, assign) ==
    {[oid |-> base \o s, value |-> assign[s].status] :
        s \in {t \in DOMAIN assign : assign[t].status # NoStatus}}

Assignments(suffixes, values) ==
    UNION {[chosen -> [port : values, status : StatusValues]] :
             chosen \in {c \in SUBSET suffixes : Cardinality(c) <= MaxRows}}

\* The pairs (port-table response, status-table response) of one scheme.
SchemeResponses(port_base, status_base, suffixes, values) ==
    LET as == Assignments(suffixes, values)
    IN  {<<Table(PortRows(port_base, a)), Table(StatusRows(status_base, a))>> : a \in as}
        \cup {<<Table(PortRows(port_base, a)), Failed>> :
                a \in {b \in as : \A s \in DOMAIN b : b[s].status = NoStatus}}
        \cup {<<Failed, Failed>>}

Session(bridge, vlan, legacy) ==
    [t \in FdbTables |->
        IF t = DOT1D_BASE_PORT_IFINDEX THEN bridge
        ELSE IF t = QBRIDGE_VLAN_FDB_PORT THEN vlan[1]
        ELSE IF t = QBRIDGE_VLAN_FDB_STATUS THEN vlan[2]
        ELSE IF t = DOT1D_TP_FDB_PORT THEN legacy[1]
        ELSE legacy[2]]

Sessions ==
    {Session(b, v, l) :
        b \in BridgeResponses,
        v \in SchemeResponses(QBRIDGE_VLAN_FDB_PORT, QBRIDGE_VLAN_FDB_STATUS,
                              VlanSuffixes, VlanPortValues),
        l \in SchemeResponses(DOT1D_TP_FDB_PORT, DOT1D_TP_FDB_STATUS,
                              LegacySuffixes, LegacyPortValues)}

InitFdb ==
    /\ session \in Sessions
    /\ fdb = NoFdb
    /\ stored = [p \in PortNames |-> NoState]
    /\ call = NoCall
    /\ ret = NoState
    /\ prev = Summary(NoCall)
    /\ AuxAtRest
    /\ SwitchAtRest
    /\ CliAtRest

\* One run of _collect_macs against the session.
CollectMacs ==
    /\ ~fdb.done
    /\ fdb' = _collect_macs(session)
    /\ UNCHANGED <<session, idleVars, swVars, cliVars, auxVars>>

NextFdb == CollectMacs

SpecFdb == InitFdb /\ [][NextFdb]_vars

----------------------------------------------------------------------------
(* Properties of _collect_macs *)

Queried(t) == \E i \in 1..Len(fdb.queries) : fdb.queries[i] = t

\* The rows a table of the session returns (none when the query raises).
Returned(t) == IF session[t].ok THEN session[t].rows ELSE {}

\* The bridge-port map of the session.
BridgeMap == _bridge_port_map(session)

\* The index suffix of a row of the table at base.
Suffix(oid, base) == SubSeq(oid, Len(base) + 1, Len(oid))

\* The value of the status-table entry with the index suffix of row r.
StatusOf(r, port_base, status_base) ==
    Get(Returned(status_base), status_base \o Suffix(r.oid, port_base))

\* The MAC the index of row r encodes, <<>> if it encodes none.
RowMac(r, port_base) ==
    _parse_mac_from_oid(r.oid, port_base, port_base = QBRIDGE_VLAN_FDB_PORT).mac

\* Row r of the table at port_base is joinable: status not "2", MAC decodable,
\* bridge port in the bridge-port map.
Joinable(r, port_base, status_base) ==
    /\ StatusOf(r, port_base, status_base) # <<"2">>
    /\ RowMac(r, port_base) # <<>>
    /\ r.value \in DOMAIN BridgeMap

\* The result holds exactly what the joinable rows of one scheme give.
IsJoinOf(port_base, status_base) ==
    /\ \A r \in Returned(port_base) :
         Joinable(r, port_base, status_base) =>
            /\ BridgeMap[r.value] \in DOMAIN fdb.macs
            /\ RowMac(r, port_base) \in fdb.macs[BridgeMap[r.value]]
    /\ \A i \in DOMAIN fdb.macs : \A m \in fdb.macs[i] :
         \E r \in Returned(port_base) :
            /\ Joinable(r, port_base, status_base)
            /\ BridgeMap[r.value] = i
            /\ RowMac(r, port_base) = m

Schemes ==
    {<<QBRIDGE_VLAN_FDB_PORT, QBRIDGE_VLAN_FDB_STATUS>>,
     <<DOT1D_TP_FDB_PORT, DOT1D_TP_FDB_STATUS>>}

\* C6: when the VLAN-aware forwarding-port table returns at least one row, the
\* legacy port and status tables are never queried and no MAC of the result
\* comes from a legacy row.
C6_VlanAwarePriority ==
    (fdb.done /\ Returned(QBRIDGE_VLAN_FDB_PORT) # {}) =>
        /\ ~Queried(DOT1D_TP_FDB_PORT)
        /\ ~Queried(DOT1D_TP_FDB_STATUS)
        /\ \A oid \in fdb.rows :
             \E r \in Returned(QBRIDGE_VLAN_FDB_PORT) : r.oid = oid
        /\ \A i \in DOMAIN fdb.macs : \A m \in fdb.macs[i] :
             \E r \in Returned(QBRIDGE_VLAN_FDB_PORT) : RowMac(r, QBRIDGE_VLAN_FDB_PORT) = m

\* Every VLAN-aware row is skipped while the legacy tables hold a joinable row.
C6_Witness ==
    /\ fdb.done
    /\ Returned(QBRIDGE_VLAN_FDB_PORT) # {}
    /\ Queried(QBRIDGE_VLAN_FDB_PORT)
    /\ DOMAIN fdb.macs = {}
    /\ \E r \in Returned(DOT1D_TP_FDB_PORT) :
         Joinable(r, DOT1D_TP_FDB_PORT, DOT1D_TP_FDB_STATUS)

\* C7: in both schemes, a forwarding-port row whose status entry at the same
\* index suffix is "2" adds its MAC to no interface's set: it is not among the
\* rows that add a MAC, and where its MAC is in a set of the scheme that ran
\* (the one whose status table was queried) another row put it there.
C7_InvalidStatusExcluded ==
    fdb.done =>
        \A sch \in Schemes : \A r \in Returned(sch[1]) :
            StatusOf(r, sch[1], sch[2]) = <<"2">> =>
                /\ r.oid \notin fdb.rows
                /\ \A i \in DOMAIN fdb.macs :
                     (Queried(sch[2]) /\ RowMac(r, sch[1]) \in fdb.macs[i]) =>
                        \E q \in Returned(sch[1]) :
                            /\ q # r
                            /\ q.oid \in fdb.rows
                            /\ StatusOf(q, sch[1], sch[2]) # <<"2">>
                            /\ RowMac(q, sch[1]) = RowMac(r, sch[1])

\* A row with status "2", otherwise joinable, is left out while another row
\* of the same table adds its MAC.
C7_Witness ==
    /\ fdb.done
    /\ fdb.rows # {}
    /\ \E r \in Returned(QBRIDGE_VLAN_FDB_PORT) :
         /\ Queried(QBRIDGE_VLAN_FDB_STATUS)
         /\ StatusOf(r, QBRIDGE_VLAN_FDB_PORT, QBRIDGE_VLAN_FDB_STATUS) = <<"2">>
         /\ RowMac(r, QBRIDGE_VLAN_FDB_PORT) # <<>>
         /\ r.value \in DOMAIN BridgeMap
         /\ r.oid \notin fdb.rows

\* C8: a forwarding row whose bridge-port number is no key of the bridge-port
\* map is dropped (it adds no MAC, and where its MAC is in a set a mapped row
\* put it there), and every key of the result is a value of the bridge-port map.
C8_UnmappedBridgePortDropped ==
    fdb.done =>
        /\ \A sch \in Schemes : \A r \in Returned(sch[1]) :
             r.value \notin DOMAIN BridgeMap =>
                /\ r.oid \notin fdb.rows
                /\ \A i \in DOMAIN fdb.macs :
                     (Queried(sch[2]) /\ RowMac(r, sch[1]) \in fdb.macs[i]) =>
                        \E q \in Returned(sch[1]) :
                            /\ q.oid \in fdb.rows
                            /\ q.value \in DOMAIN BridgeMap
                            /\ BridgeMap[q.value] = i
                            /\ RowMac(q, sch[1]) = RowMac(r, sch[1])
        /\ \A i \in DOMAIN fdb.macs : \E bp \in DOMAIN BridgeMap : BridgeMap[bp] = i

\* A decodable, valid row with an unmapped bridge port is dropped while a
\* mapped row of the same table adds a MAC.
C8_Witness ==
    /\ fdb.done
    /\ fdb.rows # {}
    /\ \E r \in Returned(QBRIDGE_VLAN_FDB_PORT) :
         /\ Queried(QBRIDGE_VLAN_FDB_STATUS)
         /\ r.value \notin DOMAIN BridgeMap
         /\ RowMac(r, QBRIDGE_VLAN_FDB_PORT) # <<>>
         /\ StatusOf(r, QBRIDGE_VLAN_FDB_PORT, QBRIDGE_VLAN_FDB_STATUS) # <<"2">>
         /\ r.oid \notin fdb.rows

\* C9: when the VLAN-aware port query raises or returns no rows and the
\* bridge-port map is not empty, the legacy port table is queried (and the
\* legacy status table once the port query returned), and the result is the
\* join of the legacy rows.
C9_LegacyFallback ==
    (fdb.done /\ DOMAIN BridgeMap # {} /\ Returned(QBRIDGE_VLAN_FDB_PORT) = {}) =>
        /\ Queried(QBRIDGE_VLAN_FDB_PORT)
        /\ Queried(DOT1D_TP_FDB_PORT)
        /\ session[DOT1D_TP_FDB_PORT].ok => Queried(DOT1D_TP_FDB_STATUS)
        /\ IsJoinOf(DOT1D_TP_FDB_PORT, DOT1D_TP_FDB_STATUS)

\* The VLAN-aware port query raised and the legacy rows gave a MAC.
C9_Witness ==
    /\ fdb.done
    /\ ~session[QBRIDGE_VLAN_FDB_PORT].ok
    /\ Queried(DOT1D_TP_FDB_STATUS)
    /\ DOMAIN fdb.macs # {}
    /\ IsJoinOf(DOT1D_TP_FDB_PORT, DOT1D_TP_FDB_STATUS)

\* C10: when the bridge-port query raises or gives an empty mapping, the
\* result is empty and the bridge-port table is the only table queried.
C10_EmptyBridgeMapNoQueries ==
    (fdb.done /\ (~session[DOT1D_BASE_PORT_IFINDEX].ok \/ DOMAIN BridgeMap = {})) =>
        /\ DOMAIN fdb.macs = {}
        /\ fdb.rows = {}
        /\ \A t \in FdbTables \ {DOT1D_BASE_PORT_IFINDEX} : ~Queried(t)
        /\ fdb.queries = <<DOT1D_BASE_PORT_IFINDEX>>

\* The bridge-port query raised although the VLAN-aware table holds a
\* decodable, valid row.
C10_Witness ==
    /\ fdb.done
    /\ ~session[DOT1D_BASE_PORT_IFINDEX].ok
    /\ DOMAIN fdb.macs = {}
    /\ \E r \in Returned(QBRIDGE_VLAN_FDB_PORT) :
         /\ RowMac(r, QBRIDGE_VLAN_FDB_PORT) # <<>>
         /\ StatusOf(r, QBRIDGE_VLAN_FDB_PORT, QBRIDGE_VLAN_FDB_STATUS) # <<"2">>

----------------------------------------------------------------------------
(* The switch state assembler: snmp/collectors.py, model/port.py *)

IF_NAME == Oid(<<1, 3, 6, 1, 2, 1, 31, 1, 1, 1, 1>>)

IF_DESCR == Oid(<<1, 3, 6, 1, 2, 1, 2, 2, 1, 2>>)

IF_ADMIN_STATUS == Oid(<<1, 3, 6, 1, 2, 1, 2, 2, 1, 7>>)

IF_OPER_STATUS == Oid(<<1, 3, 6, 1, 2, 1, 2, 2, 1, 8>>)

IF_SPEED == Oid(<<1, 3, 6, 1, 2, 1, 2, 2, 1, 5>>)

QBRIDGE_VLAN_NAME == Oid(<<1, 3, 6, 1, 2, 1, 17, 7, 1, 4, 3, 1, 1>>)

IfTables == {IF_NAME, IF_DESCR, IF_ADMIN_STATUS, IF_OPER_STATUS, IF_SPEED}

AllTables == IfTables \cup FdbTables \cup {QBRIDGE_VLAN_NAME}

UpperCase == <<"A", "B", "C", "D", "E", "F", "G", "H", "I", "J", "K", "L", "M",
               "N", "O", "P", "Q", "R", "S", "T", "U", "V", "W", "X", "Y", "Z">>

LowerCase == <<"a", "b", "c", "d", "e", "f", "g", "h", "i", "j", "k", "l", "m",
               "n", "o", "p", "q", "r", "s", "t", "u", "v", "w", "x", "y", "z">>

\* str.lower()
lower(s) ==
    [i \in 1..Len(s) |->
        IF \E k \in 1..26 : UpperCase[k] = s[i]
        THEN LowerCase[CHOOSE k \in 1..26 : UpperCase[k] = s[i]]
        ELSE s[i]]

\* The characters of a formatted MAC in code-point order.
MacAlphabet == <<"-", "0", "1", "2", "3", "4", "5", "6", "7", "8", "9", ":",
                 "a", "b", "c", "d", "e", "f">>

CharRank(c) == CHOOSE k \in 1..Len(MacAlphabet) : MacAlphabet[k] = c

\* a < b for two strings, as Python compares them.
RECURSIVE StrLess(_, _)
StrLess(a, b) ==
    IF Len(b) = 0 THEN FALSE
    ELSE IF Len(a) = 0 THEN TRUE
    ELSE IF a[1] = b[1] THEN StrLess(Tail(a), Tail(b))
    ELSE CharRank(a[1]) < CharRank(b[1])

\* sorted(set of strings)
RECURSIVE sorted(_)
sorted(S) ==
    IF S = {} THEN <<>>
    ELSE LET least == CHOOSE x \in S : \A y \in S : x = y \/ StrLess(x, y)
         IN  <<least>> \o sorted(S \ {least})

\* A table whose rows the collector iterates: items is the order of the walk.
Range(seq) == {seq[i] : i \in 1..Len(seq)}

TableSeq(items) == [ok |-> TRUE, rows |-> Range(items), items |-> items]

\* _normalize_status
_normalize_status(value) ==
    IF value = <<"1">> THEN <<"u", "p">>
    ELSE IF value = <<"2">> THEN <<"d", "o", "w", "n">>
    ELSE value

\* Port.is_active without the lower().
is_active_exact(port) == port.oper_status = <<"u", "p">> /\ port.macs # <<>>

\* Port.is_active
is_active(port) == lower(port.oper_status) = <<"u", "p">> /\ port.macs # <<>>

\* ifindex of a port whose index suffix is not numeric.
NoIfindex == -1

\* Lines 168-176: index, ifindex and the looked-up fields of one ifName row.
RowIndex(row) == Last(row.oid)

RowIfindex(row) == IF isdigit(RowIndex(row)) THEN int(RowIndex(row)) ELSE NoIfindex

\* Lines 177-188: the Port built for one row of the interface-name table.
PortOf(row, descrs, admin, oper, speeds, switch) ==
    LET index == RowIndex(row)
        speed == Get(speeds, IF_SPEED \o <<index>>)
    IN  [name |-> row.value,
         descr |-> Get(descrs, IF_DESCR \o <<index>>),
         admin_status |-> _normalize_status(Get(admin, IF_ADMIN_STATUS \o <<index>>)),
         oper_status |-> _normalize_status(Get(oper, IF_OPER_STATUS \o <<index>>)),
         speed |-> IF speed # <<>> /\ isdigit(speed) THEN int(speed) ELSE None,
         vlan |-> <<>>,
         macs |-> <<>>,
         idle_since |-> None,
         last_active |-> None,
         is_trunk |-> row.value \in switch.trunk_ports]

\* ports_by_ifindex[i] after the loop: the position of the last row with ifindex i.
PortsByIfindex(items) ==
    [i \in {RowIfindex(items[k]) : k \in 1..Len(items)} \ {NoIfindex} |->
        CHOOSE k \in 1..Len(items) :
            /\ RowIfindex(items[k]) = i
            /\ \A j \in 1..Len(items) : RowIfindex(items[j]) = i => j <= k]

\* AttachMacs looking the MAC set up under the port's position in the list.
AttachMacs_position(ports, items, macs_by_ifindex) ==
    [k \in 1..Len(ports) |->
        IF k \in DOMAIN macs_by_ifindex
        THEN [ports[k] EXCEPT !.macs = sorted(macs_by_ifindex[k])]
        ELSE ports[k]]

\* Lines 193-197: port.macs = sorted(macs) for the port registered under each ifindex.
AttachMacs(ports, items, macs_by_ifindex) ==
    LET by_ifindex == PortsByIfindex(items)
    IN  [k \in 1..Len(ports) |->
            LET i == RowIfindex(items[k])
            IN  IF i \in DOMAIN macs_by_ifindex /\ i \in DOMAIN by_ifindex /\ by_ifindex[i] = k
                THEN [ports[k] EXCEPT !.macs = sorted(macs_by_ifindex[i])]
                ELSE ports[k]]

\* Lines 199-206: the VLAN list; a failed query gives no VLAN.
Vlans(sess) ==
    LET vlan_q == get_table(sess, QBRIDGE_VLAN_NAME)
    IN  IF ~vlan_q.ok THEN <<>>
        ELSE [k \in 1..Len(vlan_q.items) |->
                 [vlan_id |-> Last(vlan_q.items[k].oid),
                  name |-> vlan_q.items[k].value,
                  ports |-> <<>>]]

\* The interface tables in the order lines 160-164 query them.
IfQueryOrder == <<IF_NAME, IF_DESCR, IF_ADMIN_STATUS, IF_OPER_STATUS, IF_SPEED>>

\* FirstFailure with only the interface-name query left unguarded.
FirstFailure_namesonly(sess) == IF get_table(sess, IF_NAME).ok THEN 0 ELSE 1

\* The first interface-table query that raises, 0 if none does.
FirstFailure(sess) ==
    IF \A k \in 1..5 : get_table(sess, IfQueryOrder[k]).ok THEN 0
    ELSE CHOOSE k \in 1..5 :
            /\ ~get_table(sess, IfQueryOrder[k]).ok
            /\ \A j \in 1..(k - 1) : get_table(sess, IfQueryOrder[j]).ok

Raised(op, queries) ==
    [done |-> TRUE, op |-> op, raised |-> TRUE, ports |-> <<>>, vlans |-> <<>>,
     snapshots |-> <<>>, queries |-> queries]

\* Lines 166-214: the Switch assembled once the interface tables are read.
SwitchState(switch, sess) ==
    LET names == get_table(sess, IF_NAME)
        descrs == get_table(sess, IF_DESCR).rows
        admin == get_table(sess, IF_ADMIN_STATUS).rows
        oper == get_table(sess, IF_OPER_STATUS).rows
        speeds == get_table(sess, IF_SPEED).rows
        ports == [k \in 1..Len(names.items) |->
                     PortOf(names.items[k], descrs, admin, oper, speeds, switch)]
        collected == _collect_macs(sess)
    IN  [done |-> TRUE, op |-> "collect_switch_state", raised |-> FALSE,
         ports |-> AttachMacs(ports, names.items, collected.macs),
         vlans |-> Vlans(sess),
         snapshots |-> <<>>,
         queries |-> IfQueryOrder \o collected.queries \o <<QBRIDGE_VLAN_NAME>>]

\* collect_switch_state that lets a failure of the VLAN name query escape.
collect_switch_state_vlanraises(switch, sess) ==
    IF FirstFailure(sess) # 0
    THEN Raised("collect_switch_state", SubSeq(IfQueryOrder, 1, FirstFailure(sess)))
    ELSE IF ~get_table(sess, QBRIDGE_VLAN_NAME).ok
    THEN Raised("collect_switch_state", SwitchState(switch, sess).queries)
    ELSE SwitchState(switch, sess)

\* collect_switch_state that lets the failure of both forwarding-port
\* queries escape.
collect_switch_state_fdbraises(switch, sess) ==
    IF FirstFailure(sess) # 0
    THEN Raised("collect_switch_state", SubSeq(IfQueryOrder, 1, FirstFailure(sess)))
    ELSE IF /\ ~get_table(sess, QBRIDGE_VLAN_FDB_PORT).ok
            /\ ~get_table(sess, DOT1D_TP_FDB_PORT).ok
    THEN Raised("collect_switch_state", IfQueryOrder \o _collect_macs(sess).queries)
    ELSE SwitchState(switch, sess)

\* collect_switch_state: the Switch returned, or raised = TRUE when a query of
\* lines 160-164 raises.
collect_switch_state(switch, sess) ==
    IF FirstFailure(sess) # 0
    THEN Raised("collect_switch_state", SubSeq(IfQueryOrder, 1, FirstFailure(sess)))
    ELSE SwitchState(switch, sess)

\* collect_port_snapshots: one PortSnapshot per port of the collected state.
collect_port_snapshots(switch, sess) ==
    LET state == collect_switch_state(switch, sess)
    IN  IF state.raised THEN [state EXCEPT !.op = "collect_port_snapshots"]
        ELSE [state EXCEPT
                !.op = "collect_port_snapshots",
                !.snapshots = [k \in 1..Len(state.ports) |->
                    [name |-> state.ports[k].name,
                     is_active |-> is_active(state.ports[k]),
                     mac_count |-> Len(state.ports[k].macs),
                     oper_status |-> state.ports[k].oper_status]]]

CollectSwitchState ==
    /\ ~sw.done
    /\ sw' = collect_switch_state(cfg, session)
    /\ UNCHANGED <<cfg, session, fdb, idleVars, cliVars, auxVars>>

CollectPortSnapshots ==
    /\ ~sw.done
    /\ sw' = collect_port_snapshots(cfg, session)
    /\ UNCHANGED <<cfg, session, fdb, idleVars, cliVars, auxVars>>

NextSwitch == CollectSwitchState \/ CollectPortSnapshots

----------------------------------------------------------------------------
(* The switches collect_switch_state is run against *)

Gi1 == <<"G", "i", "1">>

Gi2 == <<"G", "i", "2">>

\* Interface indexes of the ifName rows, in walk order: 10, and a suffix that
\* is no number.
IfIndexes == <<Dec(10), <<"x">>>>

IfNameValues == {<<>>, Gi1}

IfDescrValues == {<<>>, Gi2}

IfOperValues == {Dec(1), Dec(2), <<"U", "P">>}

\* Which indexes have a row, and the name, description and operational status
\* of each.
IfChoices ==
    UNION {[chosen -> [name : IfNameValues, descr : IfDescrValues, oper : IfOperValues]] :
             chosen \in SUBSET Range(IfIndexes)}

\* The indexes of a choice in walk order.
RECURSIVE Chosen(_, _)
Chosen(seq, choice) ==
    IF Len(seq) = 0 THEN <<>>
    ELSE (IF seq[1] \in DOMAIN choice THEN <<seq[1]>> ELSE <<>>) \o Chosen(Tail(seq), choice)

IfRows(base, choice, val(_)) ==
    LET idx == Chosen(IfIndexes, choice)
    IN  [k \in 1..Len(idx) |-> [oid |-> base \o <<idx[k]>>, value |-> val(idx[k])]]

\* Forwarding tables: bridge ports 1 and 2 are interfaces 10 and 11; two MACs
\* in VLAN 1, each on bridge port 1 or 2 with status 2 or 3; one legacy MAC.
SwBridge ==
    Table({[oid |-> DOT1D_BASE_PORT_IFINDEX \o Oid(<<1>>), value |-> Dec(10)],
           [oid |-> DOT1D_BASE_PORT_IFINDEX \o Oid(<<2>>), value |-> Dec(11)]})

SwVlanSuffixes ==
    {Oid(<<1, 0, 17, 34, 51, 68, 255>>),
     Oid(<<1, 0, 17, 34, 51, 68, 10>>)}

SwVlanResponses ==
    {<<Table(PortRows(QBRIDGE_VLAN_FDB_PORT, a)), Table(StatusRows(QBRIDGE_VLAN_FDB_STATUS, a))>> :
        a \in UNION {[chosen -> [port : {Dec(1), Dec(2)}, status : {Dec(2), Dec(3)}]] :
                       chosen \in SUBSET SwVlanSuffixes}}
    \cup {<<Failed, Failed>>}

SwLegacyResponses ==
    {<<Failed, Failed>>,
     <<Table({}), Table({})>>,
     <<Table({[oid |-> DOT1D_TP_FDB_PORT \o Oid(<<0, 17, 34, 51, 68, 1>>), value |-> Dec(1)]}),
       Table({})>>}

SwVlanNames ==
    TableSeq(<<[oid |-> QBRIDGE_VLAN_NAME \o Oid(<<1>>), value |-> <<"d", "e", "f">>],
               [oid |-> QBRIDGE_VLAN_NAME \o Oid(<<20>>), value |-> <<>>]>>)

SwitchSession(choice, vlan, legacy) ==
    [t \in AllTables |->
        IF t = IF_NAME THEN TableSeq(IfRows(IF_NAME, choice, LAMBDA i : choice[i].name))
        ELSE IF t = IF_DESCR THEN TableSeq(IfRows(IF_DESCR, choice, LAMBDA i : choice[i].descr))
        ELSE IF t = IF_ADMIN_STATUS THEN TableSeq(IfRows(IF_ADMIN_STATUS, choice, LAMBDA i : Dec(1)))
        ELSE IF t = IF_OPER_STATUS THEN TableSeq(IfRows(IF_OPER_STATUS, choice, LAMBDA i : choice[i].oper))
        ELSE IF t = IF_SPEED THEN TableSeq(IfRows(IF_SPEED, choice, LAMBDA i : Dec(1000)))
        ELSE IF t = QBRIDGE_VLAN_NAME THEN SwVlanNames
        ELSE IF t = DOT1D_BASE_PORT_IFINDEX THEN SwBridge
        ELSE IF t = QBRIDGE_VLAN_FDB_PORT THEN vlan[1]
        ELSE IF t = QBRIDGE_VLAN_FDB_STATUS THEN vlan[2]
        ELSE IF t = DOT1D_TP_FDB_PORT THEN legacy[1]
        ELSE legacy[2]]

\* Sessions in which every query outside the forwarding tables succeeds.
HealthySessions ==
    {SwitchSession(c, v, l) : c \in IfChoices, v \in SwVlanResponses, l \in SwLegacyResponses}

\* A switch with both interfaces, one table of which cannot be read.
BothInterfaces ==
    [i \in Range(IfIndexes) |->
        IF i = Dec(10) THEN [name |-> Gi1, descr |-> Gi2, oper |-> Dec(1)]
        ELSE [name |-> <<>>, descr |-> <<>>, oper |-> Dec(2)]]

FailingTables == IfTables \cup {QBRIDGE_VLAN_NAME, DOT1D_BASE_PORT_IFINDEX}

FailingSessions ==
    {[SwitchSession(BothInterfaces, v, l) EXCEPT ![t] = Failed] :
        v \in SwVlanResponses, l \in SwLegacyResponses, t \in FailingTables}

SwitchConfigs == {[name |-> "sw1", trunk_ports |-> {n}] : n \in {Gi1, Gi2}}

InitSwitch ==
    /\ session \in HealthySessions \cup FailingSessions
    /\ cfg \in SwitchConfigs
    /\ sw = NoSwitch
    /\ fdb = NoFdb
    /\ stored = [p \in PortNames |-> NoState]
    /\ call = NoCall
    /\ ret = NoState
    /\ prev = Summary(NoCall)
    /\ AuxAtRest
    /\ CliAtRest

SpecSwitch == InitSwitch /\ [][NextSwitch]_vars

----------------------------------------------------------------------------
(* Properties of collect_switch_state and collect_port_snapshots *)

\* The call returned a Switch (it did not raise).
Assembled == sw.done /\ ~sw.raised

\* The rows of the interface-name table in walk order; port k is built from row k.
IfItems == session[IF_NAME].items

IfIndex(k) == Last(IfItems[k].oid)

\* The value of the table at base for the index of row k, "" if it has none.
IfValue(base, k) == Get(Returned(base), base \o <<IfIndex(k)>>)

\* The first non-empty of ifName, ifDescr and the index.
ResolvedName(k) ==
    IF IfItems[k].value # <<>> THEN IfItems[k].value
    ELSE IF IfValue(IF_DESCR, k) # <<>> THEN IfValue(IF_DESCR, k)
    ELSE IfIndex(k)

\* C11: the name of the port built from each ifName row is the first non-empty
\* of the ifName value, the ifDescr value for the index and the index itself,
\* so no port has an empty name.
C11_NameFallsBackToDescrOrIndex ==
    Assembled =>
        /\ Len(sw.ports) = Len(IfItems)
        /\ \A k \in 1..Len(sw.ports) :
             sw.ports[k].name = ResolvedName(k) /\ sw.ports[k].name # <<>>

\* C12: a port is marked trunk exactly when its resolved name (after the
\* name/description/index substitution) is in the configured trunk-port set.
C12_TrunkByResolvedName ==
    Assembled =>
        \A k \in 1..Len(sw.ports) :
            sw.ports[k].is_trunk <=> (ResolvedName(k) \in cfg.trunk_ports)

\* The forwarding scheme _collect_macs selects: VLAN-aware if its port table
\* returned a row, else legacy.
SelectedScheme ==
    IF Returned(QBRIDGE_VLAN_FDB_PORT) # {}
    THEN <<QBRIDGE_VLAN_FDB_PORT, QBRIDGE_VLAN_FDB_STATUS>>
    ELSE <<DOT1D_TP_FDB_PORT, DOT1D_TP_FDB_STATUS>>

\* The MACs of the rows of the selected scheme whose status is not "2" and
\* whose bridge port maps to interface i.
ExpectedMacs(i) ==
    {RowMac(r, SelectedScheme[1]) :
        r \in {q \in Returned(SelectedScheme[1]) :
                 /\ Joinable(q, SelectedScheme[1], SelectedScheme[2])
                 /\ BridgeMap[q.value] = i}}

\* The MACs port k is to list: those of its interface index if it is numeric.
PortMacs(k) ==
    IF isdigit(IfIndex(k)) THEN ExpectedMacs(DigitsValue(IfIndex(k))) ELSE {}

NoDuplicates(seq) == \A a, b \in 1..Len(seq) : a # b => seq[a] # seq[b]

\* C13: after collect_switch_state the MAC list of a port with numeric
\* interface index i holds, once each, exactly the MACs decoded from the rows
\* of the selected scheme with status other than "2" and a bridge port mapped
\* to i; every other port has an empty list; the ports are those of the ifName
\* rows, so a MAC set of an index without a port is dropped.
C13_PortMacsAreTheJoin ==
    Assembled =>
        /\ Len(sw.ports) = Len(IfItems)
        /\ \A k \in 1..Len(sw.ports) :
             /\ Range(sw.ports[k].macs) = PortMacs(k)
             /\ NoDuplicates(sw.ports[k].macs)

\* A port lists two MACs while the port with the non-numeric index lists none.
C13_Witness ==
    /\ Assembled
    /\ \E k \in 1..Len(sw.ports) : Len(sw.ports[k].macs) = 2 /\ Cardinality(PortMacs(k)) = 2
    /\ \E k \in 1..Len(sw.ports) : ~isdigit(IfIndex(k)) /\ sw.ports[k].macs = <<>>

\* The texts that equal "up" ignoring case, and the status code for up.
UpTexts == {<<"u", "p">>, <<"U", "p">>, <<"u", "P">>, <<"U", "P">>, <<"1">>}

Snapshotted == Assembled /\ sw.op = "collect_port_snapshots"

\* C14: a port snapshot is active exactly when the operational status of the
\* port is "up" ignoring case (or the code "1") and the port has a MAC.
C14_ActiveIffUpWithMac ==
    Snapshotted =>
        /\ Len(sw.snapshots) = Len(IfItems)
        /\ \A k \in 1..Len(sw.snapshots) :
             sw.snapshots[k].is_active <=>
                (IfValue(IF_OPER_STATUS, k) \in UpTexts /\ PortMacs(k) # {})

\* One snapshot is active with status "UP", another is up without a MAC, or
\* has none of the two, and is inactive.
C14_Witness ==
    /\ Snapshotted
    /\ \E k \in 1..Len(sw.snapshots) :
         /\ sw.snapshots[k].is_active
         /\ IfValue(IF_OPER_STATUS, k) = <<"U", "P">>
         /\ sw.snapshots[k].mac_count > 0
    /\ \E k \in 1..Len(sw.snapshots) :
         /\ ~sw.snapshots[k].is_active
         /\ IfValue(IF_OPER_STATUS, k) \in UpTexts
         /\ sw.snapshots[k].mac_count = 0

\* C15: when the query of the interface-name table or of a status table
\* raises, collect_switch_state raises and returns nothing.
C15_InterfaceFailurePropagates ==
    (sw.done /\ \E t \in {IF_NAME, IF_ADMIN_STATUS, IF_OPER_STATUS} : ~session[t].ok) =>
        /\ sw.raised
        /\ sw.ports = <<>> /\ sw.vlans = <<>> /\ sw.snapshots = <<>>
        /\ \A i \in 1..Len(sw.queries) : sw.queries[i] \in IfTables

\* The operational-status query raised after the name table returned rows.
C15_Witness ==
    /\ sw.done /\ sw.raised
    /\ session[IF_NAME].ok /\ Len(IfItems) > 0
    /\ ~session[IF_OPER_STATUS].ok
    /\ sw.ports = <<>>

\* C16: when the VLAN name query raises, collect_switch_state still returns
\* the switch with all its ports and their MAC lists, and no VLAN.
C16_VlanNameFailureDegrades ==
    (sw.done /\ ~session[QBRIDGE_VLAN_NAME].ok /\ \A t \in IfTables : session[t].ok) =>
        /\ ~sw.raised
        /\ sw.vlans = <<>>
        /\ Len(sw.ports) = Len(IfItems)
        /\ \A k \in 1..Len(sw.ports) :
             /\ sw.ports[k].name = IfItems[k].value
             /\ Range(sw.ports[k].macs) = PortMacs(k)

\* The VLAN name query raised and a port of the returned switch has a MAC.
C16_Witness ==
    /\ Assembled
    /\ ~session[QBRIDGE_VLAN_NAME].ok
    /\ sw.vlans = <<>>
    /\ \E k \in 1..Len(sw.ports) : sw.ports[k].macs # <<>>

----------------------------------------------------------------------------
(* The build-html command: cli.py build_html, render/build.py build_site *)

\* What one collect_switch_state call does: return a Switch, raise SnmpError,
\* raise another Exception, or raise a BaseException that is no Exception.
Outcomes == {"ok", "SnmpError", "ValueError", "KeyboardInterrupt"}

\* The classes "except Exception" catches.
IsException(e) == e \in {"SnmpError", "ValueError"}

\* The keyword-only parameters of build_site.
build_site_params == {"switches", "output_dir", "template_dir", "static_dir",
                      "idlesince_store", "maclist_store", "build_date"}

\* The keyword arguments of the build_site call in build_html.
build_site_kwargs == {"switches", "failed_switches", "output_dir", "template_dir",
                      "static_dir", "idlesince_store", "maclist_store", "build_date"}

\* The Switch collect_switch_state returns for the configured switch name.
SwitchOf(name) == [name |-> name]

\* The loop body with a failure logged but not recorded.
collect_one_unrecorded(b, outcome) ==
    LET name == b.site[Len(b.outcomes) + 1]
        seen == [b EXCEPT !.outcomes = Append(@, outcome)]
    IN  IF outcome = "ok"
        THEN [seen EXCEPT !.switches = Append(@, SwitchOf(name))]
        ELSE IF IsException(outcome)
        THEN [seen EXCEPT !.logged = Append(@, name)]
        ELSE [seen EXCEPT !.status = "raised", !.error = outcome]

\* One iteration of the loop of build_html over site.switches: the try block
\* and its "except Exception" handler.
collect_one(b, outcome) ==
    LET name == b.site[Len(b.outcomes) + 1]
        seen == [b EXCEPT !.outcomes = Append(@, outcome)]
    IN  IF outcome = "ok"
        THEN [seen EXCEPT !.switches = Append(@, SwitchOf(name))]
        ELSE IF IsException(outcome)
        THEN [seen EXCEPT !.logged = Append(@, name),
                          !.failed_switches = Append(@, name)]
        ELSE [seen EXCEPT !.status = "raised", !.error = outcome]

\* The build_site call after the loop: a keyword build_site does not declare
\* makes the call raise TypeError before the body of build_site runs.
call_build_site(b) ==
    LET args == [called |-> TRUE, switches |-> b.switches,
                 failed_switches |-> b.failed_switches]
    IN  IF build_site_kwargs \subseteq build_site_params
        THEN [b EXCEPT !.passed = args, !.status = "built"]
        ELSE [b EXCEPT !.passed = args, !.status = "raised", !.error = "TypeError"]

BuildCollect(outcome) ==
    /\ build.status = "collecting"
    /\ Len(build.outcomes) < Len(build.site)
    /\ build' = collect_one(build, outcome)
    /\ UNCHANGED <<idleVars, fdbVars, swVars, files, scan, auxVars>>

BuildSite ==
    /\ build.status = "collecting"
    /\ Len(build.outcomes) = Len(build.site)
    /\ build' = call_build_site(build)
    /\ UNCHANGED <<idleVars, fdbVars, swVars, files, scan, auxVars>>

NextBuild == (\E outcome \in Outcomes : BuildCollect(outcome)) \/ BuildSite

\* Names of the configured switches.
SwitchNames == {"sw1", "sw2", "sw3"}

\* site.switches: the configured switches in configuration order.
Sites ==
    {s \in UNION {[1..n -> SwitchNames] : n \in 0..Cardinality(SwitchNames)} :
        \A i, j \in DOMAIN s : i # j => s[i] # s[j]}

InitBuild ==
    /\ build \in {[NoBuild EXCEPT !.status = "collecting", !.site = s] : s \in Sites}
    /\ files = NoFiles
    /\ scan = NoScan
    /\ stored = [p \in PortNames |-> NoState]
    /\ call = NoCall
    /\ ret = NoState
    /\ prev = Summary(NoCall)
    /\ AuxAtRest
    /\ session = NoSession
    /\ fdb = NoFdb
    /\ SwitchAtRest

SpecBuild == InitBuild /\ [][NextBuild]_vars

----------------------------------------------------------------------------
(* Properties of build_html *)

\* The configured names whose collection did (ok = TRUE) or did not succeed,
\* in configuration order.
RECURSIVE SitePick(_, _, _)
SitePick(site, outcomes, ok) ==
    IF site = <<>> \/ outcomes = <<>> THEN <<>>
    ELSE LET rest == SitePick(Tail(site), Tail(outcomes), ok)
         IN  IF (Head(outcomes) = "ok") = ok THEN <<Head(site)>> \o rest ELSE rest

C18_OtherErrorsPropagate ==
    \A i \in 1..Len(build.outcomes) :
        build.outcomes[i] \notin {"ok", "SnmpError"} =>
            /\ build.status = "raised"
            /\ build.error = build.outcomes[i]
            /\ ~build.passed.called

----------------------------------------------------------------------------
(* The idle-since files: storage/idlesince_store.py load and save *)

\* A JSON value found under "idle_since" or "last_active": null, an ISO-8601
\* text (wall-clock time and UTC offset), a text that is no timestamp, or a
\* number.
Null == [kind |-> "null", wall |-> 0, offset |-> 0]

Iso(wall, offset) == [kind |-> "iso", wall |-> wall, offset |-> offset]

NotATimestamp == [kind |-> "text", wall |-> 0, offset |-> 0]

Number == [kind |-> "number", wall |-> 0, offset |-> 0]

\* IdleSinceStore._parse_timestamp: the instant of the text, converted to UTC.
_parse_timestamp(raw) ==
    IF raw.kind = "null" THEN None
    ELSE IF raw.kind = "number" THEN None
    ELSE IF raw.kind # "iso" THEN None
    ELSE raw.wall - raw.offset

\* datetime.isoformat of a UTC datetime, or None.
isoformat(t) == IF t = None THEN Null ELSE Iso(t, 0)

\* A per-port entry of a file: a JSON object with the two timestamps, or
\* another JSON value.
Payload(idle_since, last_active) ==
    [dict |-> TRUE, idle_since |-> idle_since, last_active |-> last_active]

NotADict == [dict |-> FALSE, idle_since |-> Null, last_active |-> Null]

\* <switch>.json: absent, or a JSON object port -> entry.
NoFile == [exists |-> FALSE, data |-> <<>>]

File(data) == [exists |-> TRUE, data |-> data]

\* IdleSinceStore.load giving up on the file at the first timestamp it cannot
\* parse.
load_strict(file) ==
    IF ~file.exists THEN <<>>
    ELSE IF \E p \in DOMAIN file.data :
               /\ file.data[p].dict
               /\ \/ file.data[p].idle_since.kind \in {"text", "number"}
                  \/ file.data[p].last_active.kind \in {"text", "number"}
    THEN <<>>
    ELSE [port \in {p \in DOMAIN file.data : file.data[p].dict} |->
            [port |-> port,
             idle_since |-> _parse_timestamp(file.data[port].idle_since),
             last_active |-> _parse_timestamp(file.data[port].last_active)]]

\* IdleSinceStore.save writing idle_since only.
save_idleonly(data) ==
    File([port \in DOMAIN data |-> Payload(isoformat(data[port].idle_since), Null)])

\* IdleSinceStore.load: port -> PortIdleState.
load(file) ==
    IF ~file.exists THEN <<>>
    ELSE [port \in {p \in DOMAIN file.data : file.data[p].dict} |->
            [port |-> port,
             idle_since |-> _parse_timestamp(file.data[port].idle_since),
             last_active |-> _parse_timestamp(file.data[port].last_active)]]

\* IdleSinceStore.save: the file written for a dict port -> PortIdleState.
save(data) ==
    File([port \in DOMAIN data |->
            Payload(isoformat(data[port].idle_since), isoformat(data[port].last_active))])

\* dict.get(key): None (NoState) for a missing key.
dict_get(d, key) == IF key \in DOMAIN d THEN d[key] ELSE NoState

\* d[key] = value
dict_set(d, key, value) ==
    [k \in DOMAIN d \cup {key} |-> IF k = key THEN value ELSE d[k]]

----------------------------------------------------------------------------
(* The scan-switch command: cli.py scan_switch *)

\* The loop over the snapshots of one switch; every record is computed from
\* the record loaded before the loop.
RECURSIVE update_all(_, _, _, _)
update_all(updated, current, snapshots, now) ==
    IF snapshots = <<>> THEN updated
    ELSE LET snapshot == Head(snapshots)
             state == dict_get(current, snapshot.name)
         IN  update_all(dict_set(updated, snapshot.name,
                                 update_port(state, snapshot.name, snapshot.is_active,
                                             None, now)),
                        current, Tail(snapshots), now)

\* The loop with no previous record passed to update_port.
RECURSIVE update_all_stale(_, _, _, _)
update_all_stale(updated, current, snapshots, now) ==
    IF snapshots = <<>> THEN updated
    ELSE LET snapshot == Head(snapshots)
         IN  update_all_stale(dict_set(updated, snapshot.name,
                                       update_port(NoState, snapshot.name,
                                                   snapshot.is_active, None, now)),
                              current, Tail(snapshots), now)

\* The dict scan_switch hands to save: the loaded records, or none with
\* --prune-missing, with the records of the scanned ports replaced.
scan_records(file, snapshots, prune_missing, now) ==
    LET current == load(file)
        updated == IF prune_missing THEN <<>> ELSE current
    IN  update_all(updated, current, snapshots, now)

\* scan_one that starts from an empty dict whatever the option says.
scan_one_prune(file, snapshots, prune_missing, now) ==
    save(update_all(<<>>, load(file), snapshots, now))

\* scan_one whose update_port calls get no previous record.
scan_one_stale(file, snapshots, prune_missing, now) ==
    LET current == load(file)
        updated == IF prune_missing THEN <<>> ELSE current
    IN  save(update_all_stale(updated, current, snapshots, now))

\* The body of the loop of scan_switch after the collection: load the file of
\* the switch, update the records of the scanned ports, save the file.
scan_one(file, snapshots, prune_missing, now) ==
    save(scan_records(file, snapshots, prune_missing, now))

\* The port names of a list of snapshots.
SnapshotNames(snapshots) == {snapshots[i].name : i \in 1..Len(snapshots)}

\* The activity flag of the last snapshot of the list that names port p.
LastFlag(snapshots, p) ==
    LET i == CHOOSE j \in 1..Len(snapshots) :
                 /\ snapshots[j].name = p
                 /\ \A l \in (j + 1)..Len(snapshots) : snapshots[l].name # p
    IN  snapshots[i].is_active

\* The port whose observations the model remembers.
TrackedSwitch == "sw2"

TrackedPort == "Gi1/0/1"

\* History of the tracked port, kept once its record is known to have been
\* absent: the flag and time of each scan of its switch that saw the port
\* since the record last did not exist.
Observed(obs, name, snapshots, prune_missing, now) ==
    IF name # TrackedSwitch THEN obs
    ELSE IF TrackedPort \in SnapshotNames(snapshots)
    THEN IF obs.tracked
         THEN [obs EXCEPT !.seen = Append(@, [is_active |-> LastFlag(snapshots, TrackedPort),
                                             now |-> now])]
         ELSE obs
    ELSE IF prune_missing THEN [tracked |-> TRUE, seen |-> <<>>]
    ELSE obs

\* site.switches of the scan: two switches in configuration order.
ScanSite == <<"sw1", "sw2">>

\* The loop moves to the next switch; after the last one the command ends.
NextSwitchOf(s) ==
    [s EXCEPT !.k = @ + 1,
              !.status = IF s.k + 1 > Len(ScanSite) THEN "done" ELSE "running"]

\* The --switch option leaves the switch at position k out.
Skipped(s) == s.switch # "" /\ ScanSite[s.k] # s.switch

\* The command starts: options parsed, store opened, loop at the first switch.
ScanStart(switch, prune_missing) ==
    /\ scan.status # "running"
    /\ scan' = [scan EXCEPT !.status = "running", !.k = 1, !.switch = switch,
                            !.prune_missing = prune_missing, !.before = files,
                            !.scanned = <<>>]
    /\ UNCHANGED <<files, build, idleVars, fdbVars, swVars, auxVars>>

\* "if switch and sw.name != switch: continue"
ScanSkip ==
    /\ scan.status = "running"
    /\ Skipped(scan)
    /\ scan' = NextSwitchOf(scan)
    /\ UNCHANGED <<files, build, idleVars, fdbVars, swVars, auxVars>>

\* The loop with the exception of collect_port_snapshots caught and the
\* switch left out.
propagate_swallowed(s) == NextSwitchOf(s)

\* An exception leaves the loop and the command: no handler in scan_switch.
propagate(s) == [s EXCEPT !.status = "error"]

\* collect_port_snapshots raises: nothing in scan_switch catches it.
ScanCollectFails ==
    /\ scan.status = "running"
    /\ ~Skipped(scan)
    /\ scan' = propagate(scan)
    /\ UNCHANGED <<files, build, idleVars, fdbVars, swVars, auxVars>>

\* One iteration for a switch whose collection returned snapshots; the clock
\* is read once more than in the iteration before.
ScanSwitch(snapshots) ==
    /\ scan.status = "running"
    /\ ~Skipped(scan)
    /\ scan.clock < MaxTime
    /\ LET name == ScanSite[scan.k]
           now == scan.clock + 1
       IN  /\ files' = [files EXCEPT
                          ![name] = scan_one(@, snapshots, scan.prune_missing, now)]
           /\ scan' = [NextSwitchOf(scan) EXCEPT
                          !.clock = now,
                          !.scanned = Append(@,
                              [name |-> name, snapshots |-> snapshots, now |-> now,
                               current |-> load(files[name]),
                               updated |-> scan_records(files[name], snapshots,
                                                        scan.prune_missing, now)]),
                          !.obs = Observed(@, name, snapshots, scan.prune_missing, now)]
    /\ UNCHANGED <<build, idleVars, fdbVars, swVars, auxVars>>

\* A PortSnapshot, as far as scan_switch reads it.
PortSnapshot(name, active) == [name |-> name, is_active |-> active]

\* What collect_port_snapshots returns: no port, one port, the two ports
\* with different flags, or two interfaces with the same name.
SnapshotLists ==
    {<<>>, <<PortSnapshot("Gi1/0/2", FALSE)>>}
    \cup {<<PortSnapshot("Gi1/0/1", a)>> : a \in BOOLEAN}
    \cup {<<PortSnapshot("Gi1/0/1", a), PortSnapshot("Gi1/0/2", ~a)>> : a \in BOOLEAN}
    \cup {<<PortSnapshot("Gi1/0/1", a), PortSnapshot("Gi1/0/1", ~a)>> : a \in BOOLEAN}

\* The --switch option: not given, or the name of the second switch.
SwitchOptions == {"", "sw2"}

NextScan ==
    \/ \E switch \in SwitchOptions, prune_missing \in BOOLEAN :
          ScanStart(switch, prune_missing)
    \/ ScanSkip
    \/ ScanCollectFails
    \/ \E snapshots \in SnapshotLists : ScanSwitch(snapshots)

\* Files found in the directory when the command starts: none, files an
\* earlier run saved, and files edited by hand.
SavedFile ==
    File([p \in PortNames |->
             IF p = "Gi1/0/1" THEN Payload(Null, Iso(1, 0))
             ELSE Payload(Iso(1, 0), Iso(1, 0))])

StoredFiles ==
    {NoFile,
     File([p \in {"Gi1/0/1"} |-> Payload(Iso(1, 0), Null)]),
     SavedFile,
     File([p \in PortNames |->
             IF p = "Gi1/0/1" THEN Payload(Iso(2, 1), NotATimestamp) ELSE NotADict]),
     File([p \in PortNames |->
             IF p = "Gi1/0/1" THEN Payload(Null, Iso(2, 1))
             ELSE Payload(Number, NotATimestamp)])}

\* The directory when the command starts: any stored file for the second
\* switch; for the first switch no file or the file with two records.
ScanDirs ==
    {d \in [Range(ScanSite) -> StoredFiles] : d[ScanSite[1]] \in {NoFile, SavedFile}}

InitScan ==
    /\ files \in ScanDirs
    /\ scan = [NoScan EXCEPT !.obs =
                  [tracked |-> TrackedPort \notin DOMAIN load(files[TrackedSwitch]),
                   seen |-> <<>>]]
    /\ build = NoBuild
    /\ stored = [p \in PortNames |-> NoState]
    /\ call = NoCall
    /\ ret = NoState
    /\ prev = Summary(NoCall)
    /\ AuxAtRest
    /\ session = NoSession
    /\ fdb = NoFdb
    /\ SwitchAtRest

SpecScan == InitScan /\ [][NextScan]_vars

----------------------------------------------------------------------------
(* Properties of scan_switch *)

\* The records of the switch of scanned entry e as loaded when the command
\* started, and as loaded from the file the command saved.
RecordsBefore(e) == load(scan.before[e.name])

RecordsAfter(e) == load(files[e.name])

\* C19: without --prune-missing a scan keeps the record of every port absent
\* from it unchanged, and the saved keys are the previous keys together with
\* the scanned port names; with --prune-missing the saved keys are exactly
\* the scanned port names.
C19_MissingPortsKeptUnlessPruned ==
    \A i \in 1..Len(scan.scanned) :
        LET e == scan.scanned[i]
            names == SnapshotNames(e.snapshots)
            kept == IF scan.prune_missing THEN {} ELSE DOMAIN RecordsBefore(e)
        IN  /\ files[e.name].exists
            /\ DOMAIN files[e.name].data = kept \cup names
            /\ DOMAIN RecordsAfter(e) = kept \cup names
            /\ \A p \in kept \ names : RecordsAfter(e)[p] = RecordsBefore(e)[p]

\* A scan without pruning stored a port it saw for the first time and kept the
\* record, with a timestamp, of a port it did not see.
C19_Witness ==
    \E i \in 1..Len(scan.scanned) :
        LET e == scan.scanned[i]
            names == SnapshotNames(e.snapshots)
        IN  /\ ~scan.prune_missing
            /\ names \ DOMAIN RecordsBefore(e) # {}
            /\ \E p \in DOMAIN RecordsBefore(e) \ names :
                 /\ RecordsBefore(e)[p].idle_since # None
                 /\ RecordsAfter(e)[p] = RecordsBefore(e)[p]

\* C20: after scan-switch processed a switch, the stored record of every
\* scanned port is update_port of the record loaded before the scan and the
\* observed flag: an idle port seen active has idle_since absent and
\* last_active set, a port never seen before and inactive has idle_since set
\* and last_active absent.
C20_ScannedPortsUpdated ==
    \A i \in 1..Len(scan.scanned) :
        LET e == scan.scanned[i]
        IN  \A p \in SnapshotNames(e.snapshots) :
                LET old == dict_get(RecordsBefore(e), p)
                    flag == LastFlag(e.snapshots, p)
                    new == dict_get(RecordsAfter(e), p)
                IN  /\ new = update_port(old, p, flag, None, e.now)
                    /\ (flag /\ old.idle_since # None) =>
                          new.idle_since = None /\ new.last_active = e.now
                    /\ (~flag /\ old = NoState) =>
                          new.idle_since = e.now /\ new.last_active = None
                    /\ (~flag /\ old.idle_since # None) =>
                          new.idle_since = old.idle_since

\* One scan saw a port active that was stored idle and saw inactive a port
\* that had no record.
C20_Witness ==
    \E i \in 1..Len(scan.scanned) :
        LET e == scan.scanned[i]
        IN  \E p, q \in SnapshotNames(e.snapshots) :
                /\ dict_get(RecordsBefore(e), p).idle_since # None
                /\ LastFlag(e.snapshots, p)
                /\ RecordsAfter(e)[p].idle_since = None
                /\ RecordsAfter(e)[p].last_active = e.now
                /\ dict_get(RecordsBefore(e), q) = NoState
                /\ ~LastFlag(e.snapshots, q)
                /\ RecordsAfter(e)[q].idle_since = e.now

----------------------------------------------------------------------------
(* Properties of IdleSinceStore.load and save *)

\* The instant a raw timestamp stands for, None if it is null or malformed.
InstantOf(raw) == IF raw.kind = "iso" THEN raw.wall - raw.offset ELSE None

Malformed(raw) == raw.kind \in {"text", "number"}

\* C21: load returns every per-port entry that is a JSON object, a malformed
\* timestamp (unparseable text, or not a string) as an absent field, and
\* every other timestamp of the file as the instant written in the file.
C21_MalformedEntryDoesNotAbortLoad ==
    \A i \in 1..Len(scan.scanned) :
        LET e == scan.scanned[i]
            data == scan.before[e.name].data
        IN  \A p \in DOMAIN data :
                data[p].dict =>
                    /\ p \in DOMAIN e.current
                    /\ e.current[p].idle_since = InstantOf(data[p].idle_since)
                    /\ e.current[p].last_active = InstantOf(data[p].last_active)

\* A loaded file had an entry with a malformed timestamp and another entry
\* with a timestamp, which was loaded.
C21_Witness ==
    \E i \in 1..Len(scan.scanned) :
        LET e == scan.scanned[i]
            data == scan.before[e.name].data
        IN  \E p, q \in DOMAIN e.current :
                /\ p # q
                /\ Malformed(data[p].idle_since)
                /\ e.current[p].idle_since = None
                /\ data[q].last_active.kind = "iso"
                /\ e.current[q].last_active = data[q].last_active.wall - data[q].last_active.offset
                /\ e.current[q].last_active # None

\* C22: loading the file save wrote returns the records that were saved, with
\* the same instants present and absent, and the files of the switches the
\* command did not save are unchanged.
C22_SaveLoadRoundTrip ==
    /\ \A i \in 1..Len(scan.scanned) :
         load(files[scan.scanned[i].name]) = scan.scanned[i].updated
    /\ scan.status # "idle" =>
         \A n \in Range(ScanSite) :
            (\A i \in 1..Len(scan.scanned) : scan.scanned[i].name # n) =>
                files[n] = scan.before[n]

\* A saved record set had a record with idle_since and one with last_active;
\* the other switch had records, which are as before.
C22_Witness ==
    \E i \in 1..Len(scan.scanned) :
        LET e == scan.scanned[i]
        IN  /\ Len(scan.scanned) = 1
            /\ \E p, q \in DOMAIN e.updated :
                 /\ e.updated[p].idle_since # None
                 /\ e.updated[q].last_active # None
                 /\ load(files[e.name])[q].last_active = e.updated[q].last_active
            /\ \E n \in Range(ScanSite) \ {e.name} :
                 files[n].exists /\ files[n] = scan.before[n]

----------------------------------------------------------------------------
(* The helpers of the collector called on their own: _parse_mac_from_oid and *)
(* _bridge_port_map                                                          *)

\* Octets of a forwarding-row index as an agent writes them: the ends of the
\* byte range and the values around the one-digit/two-digit hex border.
ByteTexts == {Dec(0), Dec(15), Dec(16), Dec(255)}

\* Components that are no byte: too large, negative, not a number, empty.
NotByteTexts == {Dec(256), <<"-", "1">>, <<"x">>, <<>>}

\* Six octets, all bytes, or the bytes 0 17 34 51 68 255 with one of them
\* replaced by a component that is no byte.
OctetLists ==
    [1..6 -> ByteTexts]
    \cup {[Oid(<<0, 17, 34, 51, 68, 255>>) EXCEPT ![i] = bad] :
            i \in 1..6, bad \in NotByteTexts}

\* The two forwarding-port tables with the flag _collect_macs passes for each.
ParseSchemes ==
    {[prefix |-> QBRIDGE_VLAN_FDB_PORT, vlan_aware |-> TRUE],
     [prefix |-> DOT1D_TP_FDB_PORT, vlan_aware |-> FALSE]}

\* The index suffix of a row: the six octets, after a VLAN id if VLAN-aware.
RowSuffix(octets, vlan_aware) == IF vlan_aware THEN Oid(<<20>>) \o octets ELSE octets

\* Row OIDs given to _parse_mac_from_oid: a full suffix under the prefix, a
\* suffix one component short, and a full suffix under another table.
ParseCalls ==
    {[op |-> "call", fn |-> "_parse_mac_from_oid", prefix |-> sch.prefix,
      vlan_aware |-> sch.vlan_aware, oid |-> sch.prefix \o RowSuffix(o, sch.vlan_aware)] :
        sch \in ParseSchemes, o \in OctetLists}
    \cup {[op |-> "call", fn |-> "_parse_mac_from_oid", prefix |-> sch.prefix,
           vlan_aware |-> sch.vlan_aware,
           oid |-> sch.prefix \o Front(RowSuffix(o, sch.vlan_aware))] :
            sch \in ParseSchemes, o \in [1..6 -> {Dec(0), Dec(255)}]}
    \cup {[op |-> "call", fn |-> "_parse_mac_from_oid", prefix |-> sch.prefix,
           vlan_aware |-> sch.vlan_aware,
           oid |-> DOT1D_BASE_PORT_IFINDEX \o RowSuffix(o, sch.vlan_aware)] :
            sch \in ParseSchemes, o \in [1..6 -> {Dec(0), Dec(255)}]}

\* The session in which the row is the only forwarding row, on bridge port 1,
\* which is interface 10.
OneRowSession(c) ==
    LET row == Table({[oid |-> c.oid, value |-> Dec(1)]})
    IN  [t \in FdbTables |->
            IF t = DOT1D_BASE_PORT_IFINDEX
            THEN Table({[oid |-> DOT1D_BASE_PORT_IFINDEX \o Oid(<<1>>), value |-> Dec(10)]})
            ELSE IF t = c.prefix THEN row
            ELSE Table({})]

\* _parse_mac_from_oid is called on the row, and _collect_macs on the session
\* that holds it.
ParseMacFromOid ==
    /\ pure.op = "call"
    /\ pure.fn = "_parse_mac_from_oid"
    /\ pure' = [op |-> "return", fn |-> pure.fn, prefix |-> pure.prefix,
                vlan_aware |-> pure.vlan_aware, oid |-> pure.oid,
                result |-> _parse_mac_from_oid(pure.oid, pure.prefix, pure.vlan_aware),
                macs |-> _collect_macs(OneRowSession(pure)).macs]
    /\ UNCHANGED <<idleVars, fdbVars, swVars, cliVars, par>>

\* Values of bridge-port table rows: numbers, also with leading zeros, and
\* texts that are no number.
IfindexTexts == {Dec(10), Dec(0), <<"0", "0", "7">>, <<"x">>, <<"-", "1">>, <<>>,
                 <<"1", ".", "5">>}

\* The bridge-port table: a row or none for each of the bridge ports 1 and 12.
BridgeTables ==
    {Table({[oid |-> DOT1D_BASE_PORT_IFINDEX \o Oid(<<bp>>), value |-> v[bp]] : bp \in DOMAIN v}) :
        v \in UNION {[ports -> IfindexTexts] : ports \in SUBSET {1, 12}}}

BridgeCalls ==
    {[op |-> "call", fn |-> "_bridge_port_map", table |-> t] :
        t \in BridgeTables \cup {Failed}}

BridgeSession(table) ==
    [t \in FdbTables |-> IF t = DOT1D_BASE_PORT_IFINDEX THEN table ELSE Failed]

BridgePortMap ==
    /\ pure.op = "call"
    /\ pure.fn = "_bridge_port_map"
    /\ pure' = [op |-> "return", fn |-> pure.fn, table |-> pure.table,
                result |-> _bridge_port_map(BridgeSession(pure.table))]
    /\ UNCHANGED <<idleVars, fdbVars, swVars, cliVars, par>>

NextPure == ParseMacFromOid \/ BridgePortMap

InitPure ==
    /\ pure \in ParseCalls \cup BridgeCalls
    /\ par = NoPar
    /\ stored = [p \in PortNames |-> NoState]
    /\ call = NoCall
    /\ ret = NoState
    /\ prev = Summary(NoCall)
    /\ session = NoSession
    /\ fdb = NoFdb
    /\ SwitchAtRest
    /\ CliAtRest

SpecPure == InitPure /\ [][NextPure]_vars

----------------------------------------------------------------------------
(* Properties of _parse_mac_from_oid and _bridge_port_map *)

ParseReturned == pure.op = "return" /\ pure.fn = "_parse_mac_from_oid"

\* The components of the row OID after the table prefix, and the six of them
\* that are the MAC octets.
ParsedSuffix == SubSeq(pure.oid, Len(pure.prefix) + 1, Len(pure.oid))

OctetAt(i) == ParsedSuffix[IF pure.vlan_aware THEN i + 1 ELSE i]

HasPrefix ==
    Len(pure.oid) >= Len(pure.prefix) /\ SubSeq(pure.oid, 1, Len(pure.prefix)) = pure.prefix

FullSuffix == Len(ParsedSuffix) = (IF pure.vlan_aware THEN 7 ELSE 6)

\* A decimal numeral of a byte value 0..255.
IsByteText(c) == isdigit(c) /\ DigitsValue(c) <= 255

\* The two lowercase hexadecimal digits of a byte value.
HexPair(v) == <<HexDigit[(v \div 16) + 1], HexDigit[(v % 16) + 1]>>

\* C23: for a row OID made of the table prefix, the VLAN id if VLAN-aware, and
\* six decimal octets in 0..255, _parse_mac_from_oid returns a MAC of 17
\* characters: six pairs of lowercase hexadecimal digits joined by colons, the
\* i-th pair encoding the i-th octet.
C23_ValidRowDecodesToCanonicalMac ==
    (ParseReturned /\ HasPrefix /\ FullSuffix /\ \A i \in 1..6 : IsByteText(OctetAt(i))) =>
        /\ pure.result.matched
        /\ Len(pure.result.mac) = 17
        /\ \A i \in 1..6 :
             SubSeq(pure.result.mac, 3 * i - 2, 3 * i - 1) = HexPair(DigitsValue(OctetAt(i)))
        /\ \A i \in 1..5 : pure.result.mac[3 * i] = ":"
        /\ pure.vlan_aware => pure.result.vlan_id = ParsedSuffix[1]

\* A VLAN-aware row with octets 0, 15, 16 and 255 was decoded.
C23_Witness ==
    /\ ParseReturned /\ HasPrefix /\ FullSuffix /\ pure.vlan_aware
    /\ {OctetAt(i) : i \in 1..6} = ByteTexts
    /\ pure.result.matched
    /\ Len(pure.result.mac) = 17

\* C24: _parse_mac_from_oid returns no match when the OID does not begin with
\* the prefix, when the suffix is too short, or when an octet is not a byte
\* value 0..255 (not a number, negative, greater than 255); the row then adds
\* no MAC to any interface.
C24_InvalidRowGivesNoMatch ==
    (ParseReturned /\ (~HasPrefix \/ Len(ParsedSuffix) < (IF pure.vlan_aware THEN 7 ELSE 6)
                       \/ \E i \in 1..6 : ~IsByteText(OctetAt(i)))) =>
        /\ ~pure.result.matched
        /\ pure.macs = <<>>

BridgeReturned == pure.op = "return" /\ pure.fn = "_bridge_port_map"

----------------------------------------------------------------------------
(* Properties of the collector's log *)

\* The log holds a warning whose message names the table.
WarnedAbout(t) ==
    \E i \in 1..Len(fdb.log) : fdb.log[i].level = "WARNING" /\ fdb.log[i].oid = t

\* C26: when the bridge-port query raises, _bridge_port_map gives the empty
\* map (so _collect_macs no MAC) and a warning names the bridge-port table;
\* when the VLAN-aware forwarding-port query raises in _collect_macs, its rows
\* count as none and a warning names that table.
C26_QueryFailureIsLogged ==
    /\ (fdb.done /\ ~session[DOT1D_BASE_PORT_IFINDEX].ok) =>
          fdb.macs = <<>> /\ WarnedAbout(DOT1D_BASE_PORT_IFINDEX)
    /\ (fdb.done /\ Queried(QBRIDGE_VLAN_FDB_PORT) /\ ~session[QBRIDGE_VLAN_FDB_PORT].ok) =>
          /\ \A r \in fdb.rows : SubSeq(r, 1, Len(DOT1D_TP_FDB_PORT)) = DOT1D_TP_FDB_PORT
          /\ WarnedAbout(QBRIDGE_VLAN_FDB_PORT)

----------------------------------------------------------------------------
(* collect_switch_state without forwarding data *)

\* The status text a port shows for the raw value of a status table.
ShownStatus(raw) ==
    IF raw = <<"1">> THEN <<"u", "p">> ELSE IF raw = <<"2">> THEN <<"d", "o", "w", "n">> ELSE raw

\* The bridge-port map is not empty and neither forwarding-port query gave a
\* row, by failing or by returning none.
NoForwardingData ==
    /\ \E r \in Returned(DOT1D_BASE_PORT_IFINDEX) : isdigit(r.value)
    /\ Returned(QBRIDGE_VLAN_FDB_PORT) = {}
    /\ Returned(DOT1D_TP_FDB_PORT) = {}

\* C28: with a non-empty bridge-port map and no row from either
\* forwarding-port query, collect_switch_state raises nothing and returns
\* every port, with its status and with an empty MAC list.
C28_NoForwardingDataNoError ==
    (sw.done /\ NoForwardingData /\ \A t \in IfTables : session[t].ok) =>
        /\ ~sw.raised
        /\ Len(sw.ports) = Len(IfItems)
        /\ \A k \in 1..Len(sw.ports) :
             /\ sw.ports[k].name = IfItems[k].value
             /\ sw.ports[k].oper_status = ShownStatus(IfValue(IF_OPER_STATUS, k))
             /\ sw.ports[k].admin_status = ShownStatus(IfValue(IF_ADMIN_STATUS, k))
             /\ sw.ports[k].macs = <<>>

\* Both forwarding-port queries raised and the switch came back with a port
\* that is up and has no MAC.
C28_Witness ==
    /\ Assembled /\ NoForwardingData
    /\ ~session[QBRIDGE_VLAN_FDB_PORT].ok /\ ~session[DOT1D_TP_FDB_PORT].ok
    /\ \E k \in 1..Len(sw.ports) :
         sw.ports[k].oper_status = <<"u", "p">> /\ sw.ports[k].macs = <<>>

----------------------------------------------------------------------------
(* Properties of scan_switch over several runs *)

\* The stored record of the tracked port, NoState if there is none.
TrackedRecord == dict_get(load(files[TrackedSwitch]), TrackedPort)

\* The first of the inactive observations that end the history: the one after
\* the most recent active observation, or the first of all.
FirstOfIdleRun(seen) ==
    CHOOSE j \in 1..Len(seen) :
        /\ \A l \in j..Len(seen) : ~seen[l].is_active
        /\ j > 1 => seen[j - 1].is_active

\* C27: over the scan-switch runs that saw a port since it had no stored
\* record, the record has idle_since present exactly when the last scan saw the
\* port inactive, and its value is the time of the first inactive scan after
\* the most recent active one (the first scan of all if there was none); so it
\* stays the same while the port stays inactive.
C27_IdleSinceIsFirstInactiveScan ==
    scan.obs.tracked =>
        IF scan.obs.seen = <<>> THEN TrackedRecord = NoState
        ELSE /\ TrackedRecord # NoState
             /\ TrackedRecord.idle_since # None <=>
                   ~scan.obs.seen[Len(scan.obs.seen)].is_active
             /\ TrackedRecord.idle_since # None =>
                   TrackedRecord.idle_since =
                      scan.obs.seen[FirstOfIdleRun(scan.obs.seen)].now

\* The port was seen active and then inactive in two scans, and idle_since is
\* the time of the first of the two.
C27_Witness ==
    /\ scan.obs.tracked
    /\ Len(scan.obs.seen) = 3
    /\ scan.obs.seen[1].is_active
    /\ ~scan.obs.seen[2].is_active
    /\ ~scan.obs.seen[3].is_active
    /\ TrackedRecord.idle_since = scan.obs.seen[2].now
    /\ scan.obs.seen[3].now > scan.obs.seen[2].now

\* The switches the loop has passed and collected: those before position k
\* that --switch does not leave out.
Passed ==
    SelectSeq(SubSeq(ScanSite, 1, scan.k - 1), LAMBDA n : scan.switch = "" \/ n = scan.switch)

\* C30: scan-switch handles the switches in configuration order and a failed
\* collection ends it: the switches before the failing one are saved with
\* their new records, the failing one and the later ones keep their files,
\* and with --switch only the named switch's file can differ.
C30_FailureStopsTheLoop ==
    scan.status # "idle" =>
        /\ [i \in 1..Len(scan.scanned) |-> scan.scanned[i].name] = Passed
        /\ \A i \in 1..Len(scan.scanned) :
             files[scan.scanned[i].name] = save(scan.scanned[i].updated)
        /\ \A i \in 1..Len(ScanSite) :
             i >= scan.k => files[ScanSite[i]] = scan.before[ScanSite[i]]
        /\ scan.status = "error" => scan.k <= Len(ScanSite)
        /\ scan.switch # "" =>
             \A n \in Range(ScanSite) \ {scan.switch} : files[n] = scan.before[n]

\* The collection of the second switch failed after the first switch was
\* saved with a new record; the file of the second switch is as it was.
C30_Witness ==
    /\ scan.status = "error"
    /\ scan.k = 2
    /\ Len(scan.scanned) = 1
    /\ files[ScanSite[1]] # scan.before[ScanSite[1]]
    /\ files[ScanSite[2]].exists
    /\ files[ScanSite[2]] = scan.before[ScanSite[2]]

----------------------------------------------------------------------------
(* The per-port updates of one switch, taken in any order: cli.py 104-114 *)

\* What collect_port_snapshots returned for the switch: snapshots of distinct
\* ports, one port or the two in either order.
DistinctSnapshots ==
    {<<PortSnapshot(p, a)>> : p \in PortNames, a \in BOOLEAN}
    \cup {<<PortSnapshot("Gi1/0/1", a), PortSnapshot("Gi1/0/2", b)>> : a, b \in BOOLEAN}
    \cup {<<PortSnapshot("Gi1/0/2", a), PortSnapshot("Gi1/0/1", b)>> : a, b \in BOOLEAN}

\* The iteration for a switch before store.load: the file on disk, the
\* snapshots and the option; no update has started.
ParStart(file, snapshots, prune_missing) ==
    [status |-> "start", file |-> file, snapshots |-> snapshots,
     prune_missing |-> prune_missing, current |-> <<>>, updated |-> <<>>,
     phase |-> [i \in 1..Len(snapshots) |-> "pending"],
     state |-> [i \in 1..Len(snapshots) |-> NoState],
     at |-> [i \in 1..Len(snapshots) |-> None],
     loads |-> 0, saves |-> 0, out |-> NoFile]

\* The previous record update_port is given: current.get(snapshot.name), with
\* the dict under construction read in its place.
previous_of_updated(current, updated, name) == dict_get(updated, name)

\* The previous record update_port is given: current.get(snapshot.name).
previous(current, updated, name) == dict_get(current, name)

\* "current = store.load(sw.name)" and "updated = {} if prune_missing else
\* dict(current)".
ParLoad ==
    /\ par.status = "start"
    /\ par' = [par EXCEPT !.status = "loaded",
                          !.current = load(par.file),
                          !.updated = IF par.prune_missing THEN <<>> ELSE load(par.file),
                          !.loads = @ + 1]
    /\ UNCHANGED <<pure, idleVars, fdbVars, swVars, cliVars>>

\* "state = store.update_port(current.get(snapshot.name), snapshot.name,
\* snapshot.is_active)" for snapshot i, at whatever time the clock shows.
ParUpdatePort(i, now) ==
    /\ par.status = "loaded"
    /\ par.phase[i] = "pending"
    /\ par' = [par EXCEPT
                 !.phase[i] = "called",
                 !.at[i] = now,
                 !.state[i] = update_port(previous(par.current, par.updated,
                                                   par.snapshots[i].name),
                                          par.snapshots[i].name,
                                          par.snapshots[i].is_active, None, now)]
    /\ UNCHANGED <<pure, idleVars, fdbVars, swVars, cliVars>>

\* "updated[snapshot.name] = state" for snapshot i.
ParAssign(i) ==
    /\ par.status = "loaded"
    /\ par.phase[i] = "called"
    /\ par' = [par EXCEPT
                 !.phase[i] = "assigned",
                 !.updated = dict_set(@, par.snapshots[i].name, par.state[i])]
    /\ UNCHANGED <<pure, idleVars, fdbVars, swVars, cliVars>>

\* "store.save(sw.name, updated)" once every snapshot is handled.
ParSave ==
    /\ par.status = "loaded"
    /\ \A i \in 1..Len(par.snapshots) : par.phase[i] = "assigned"
    /\ par' = [par EXCEPT !.status = "saved", !.out = save(par.updated),
                          !.saves = @ + 1]
    /\ UNCHANGED <<pure, idleVars, fdbVars, swVars, cliVars>>

NextPar ==
    \/ ParLoad
    \/ \E i \in 1..Len(par.snapshots), now \in Times : ParUpdatePort(i, now)
    \/ \E i \in 1..Len(par.snapshots) : ParAssign(i)
    \/ ParSave

InitPar ==
    /\ par \in {ParStart(file, snapshots, prune_missing) :
                  file \in StoredFiles, snapshots \in DistinctSnapshots,
                  prune_missing \in BOOLEAN}
    /\ pure = NoPure
    /\ stored = [p \in PortNames |-> NoState]
    /\ call = NoCall
    /\ ret = NoState
    /\ prev = Summary(NoCall)
    /\ session = NoSession
    /\ fdb = NoFdb
    /\ SwitchAtRest
    /\ CliAtRest

SpecPar == InitPar /\ [][NextPar]_vars

\* The loop of scan_switch run one snapshot after another, snapshot i observed
\* at time at[i].
RECURSIVE OneAfterAnother(_, _, _, _, _)
OneAfterAnother(updated, current, snapshots, at, i) ==
    IF i > Len(snapshots) THEN updated
    ELSE OneAfterAnother(
             dict_set(updated, snapshots[i].name,
                      update_port(dict_get(current, snapshots[i].name),
                                  snapshots[i].name, snapshots[i].is_active,
                                  None, at[i])),
             current, snapshots, at, i + 1)

\* C29: whatever the order and interleaving of the updates of the distinct
\* ports of one switch, the saved record set is the one the updates give when
\* made one after another with the same observations: each port's record is
\* update_port of that port's own previous record, flag and time, the other
\* records are the loaded ones (none with --prune-missing), and the file is
\* loaded once and saved once.
C29_AnyOrderSameRecords ==
    par.status = "saved" =>
        LET current == load(par.file)
            start == IF par.prune_missing THEN <<>> ELSE current
        IN  /\ par.out = save(OneAfterAnother(start, current, par.snapshots, par.at, 1))
            /\ \A i \in 1..Len(par.snapshots) :
                 load(par.out)[par.snapshots[i].name] =
                    update_port(dict_get(current, par.snapshots[i].name),
                                par.snapshots[i].name, par.snapshots[i].is_active,
                                None, par.at[i])
            /\ \A p \in DOMAIN load(par.out) \ SnapshotNames(par.snapshots) :
                 ~par.prune_missing /\ load(par.out)[p] = current[p]
            /\ par.loads = 1
            /\ par.saves = 1

\* Two ports were updated, the second snapshot's update_port call made at an
\* earlier time than the first snapshot's, and one of them is a port with a
\* stored record that was seen inactive and keeps its earlier idle_since.
C29_Witness ==
    /\ par.status = "saved"
    /\ Len(par.snapshots) = 2
    /\ par.at[2] < par.at[1]
    /\ \E i \in 1..2 :
         /\ ~par.snapshots[i].is_active
         /\ dict_get(load(par.file), par.snapshots[i].name) # NoState
         /\ load(par.out)[par.snapshots[i].name].idle_since # par.at[i]

====
